---- MODULE Spec2Model ----
(***************************************************************************)
(* Model of the task-orchestration core of ctoz (CasaOS -> ZimaOS          *)
(* migration tool): the in-memory task store (storage.MemoryStore), the    *)
(* per-task workers of services.MigrationService (online migration, data   *)
(* export, data import), the step execution contract of                    *)
(* services.TaskService and the WebSocket hub (websocket.Manager).         *)
(***************************************************************************)
EXTENDS Integers, Sequences, FiniteSets, TLC

(***************************************************************************)
(* Bounds of the model.                                                    *)
(***************************************************************************)
\* number of applications a scan can discover
MaxApps == 2
\* capacity of a client's Send channel (256 in the program, scaled down)
SendBufferSize == 2
\* number of WebSocket clients that can be created
MaxClients == 2
\* number of events the producer of a task publishes
MaxPublish == 3
\* last tick of the clock
MaxTime == 2
\* number of log entries of a task in the runs of the handlers
MaxLogs == 1
\* number of goroutines that call the store at the same time
MaxGoroutines == 3
\* number of expired tasks a sweep of the store finds
MaxExpired == 1

AppNames == 1..MaxApps
ClientIds == 1..MaxClients

\* the task the modelled worker owns, and the task ids the hub knows
WorkerTask == "t1"
TaskIds == {"t1", "t2"}

\* payloads of messages broadcast by callers other than the worker
Msgs == {"m1", "m2"}

None == "none"

(***************************************************************************)
(* models: task and application status constants.                          *)
(***************************************************************************)
TaskStatusPending == "pending"
TaskStatusRunning == "running"
TaskStatusCompleted == "completed"
TaskStatusFailed == "failed"
\* used by the frontend (types/index.ts) and the cancel request only
TaskStatusCancelled == "cancelled"

AppStatusSuccess == "success"
AppStatusFailed == "failed"
AppStatusSkipped == "skipped"
AppStatusPending == "pending"

AppStatusValues == {AppStatusPending, AppStatusSuccess, AppStatusFailed, AppStatusSkipped}

TaskTypeOnline == "online"
TaskTypeExport == "export"
TaskTypeImport == "import"
Flows == {TaskTypeOnline, TaskTypeExport, TaskTypeImport}

LogLevelInfo == "info"
LogLevelWarning == "warning"
LogLevelError == "error"

\* values a recovered panic can carry; NoPanic is recover() returning nil
NoPanic == "nil"
PanicValues == {"fault"}

(***************************************************************************)
(* MigrationService: derived item status and summary.                      *)
(***************************************************************************)
calculateOverallStatus_andToOr(appStatus) ==
    IF appStatus.HasAppData
    THEN IF appStatus.AppDataStatus = AppStatusSuccess \/ appStatus.ComposeStatus = AppStatusSuccess
         THEN AppStatusSuccess
         ELSE AppStatusFailed
    ELSE appStatus.ComposeStatus

calculateOverallStatus(appStatus) ==
    IF appStatus.HasAppData
    THEN IF appStatus.AppDataStatus = AppStatusSuccess /\ appStatus.ComposeStatus = AppStatusSuccess
         THEN AppStatusSuccess
         ELSE AppStatusFailed
    ELSE appStatus.ComposeStatus

RECURSIVE CountSuccess(_)
CountSuccess(apps) ==
    IF apps = <<>> THEN 0
    ELSE (IF Head(apps).OverallStatus = AppStatusSuccess THEN 1 ELSE 0) + CountSuccess(Tail(apps))

calculateImportSummary(apps) ==
    [TotalApps |-> Len(apps),
     SuccessApps |-> CountSuccess(apps),
     FailedApps |-> Len(apps) - CountSuccess(apps)]

\* a fresh AppImportStatus as the scan step creates it
NewAppStatus(name, hasAppData) ==
    [AppName |-> name, HasAppData |-> hasAppData,
     AppDataStatus |-> AppStatusSkipped, ComposeStatus |-> AppStatusPending,
     OverallStatus |-> AppStatusPending, ErrorMessage |-> <<>>, DownloadURL |-> <<>>]

(***************************************************************************)
(* time.Now(): the clock, in ticks.                                        *)
(***************************************************************************)
VARIABLE now

(***************************************************************************)
(* storage.MemoryStore: operations on the task map and the log map.  A map *)
(* is a function whose DOMAIN is the set of keys present.                  *)
(***************************************************************************)
MapDelete(m, k) == [x \in (DOMAIN m) \ {k} |-> m[x]]
MapPut(m, k, v) == [x \in (DOMAIN m) \cup {k} |-> IF x = k THEN v ELSE m[x]]

\* a task result: kind "nil" (no result yet), "apps" (the apps slice and its
\* summary; final: with completion_time and status text) or "export".
\* The apps slice shares its backing array with the worker's appStatuses:
\* the result records the slice length only, see ResultApps.
EmptySummary == [TotalApps |-> 0, SuccessApps |-> 0, FailedApps |-> 0]
NilResult == [kind |-> "nil", len |-> 0, summary |-> EmptySummary, final |-> FALSE]
ExportResult == [kind |-> "export", len |-> 0, summary |-> EmptySummary, final |-> TRUE]

\* TaskService.CreateTask
NewTask(taskType) ==
    [Type |-> taskType, Status |-> TaskStatusPending, Progress |-> 0, Result |-> NilResult,
     UpdatedAt |-> now]

SaveTask(ts, id, task) == MapPut(ts, id, task)

StoreUpdateTaskStatus(ts, id, status) ==
    IF id \in DOMAIN ts THEN [ts EXCEPT ![id].Status = status, ![id].UpdatedAt = now] ELSE ts

StoreUpdateTaskProgress(ts, id, progress) ==
    IF id \in DOMAIN ts THEN [ts EXCEPT ![id].Progress = progress, ![id].UpdatedAt = now] ELSE ts

StoreSetTaskResult(ts, id, result) ==
    IF id \in DOMAIN ts THEN [ts EXCEPT ![id].Result = result, ![id].UpdatedAt = now] ELSE ts

\* MemoryStore.GetTask and MemoryStore.DeleteTask return ErrTaskNotFound
StoreGetTaskErr(ts, id) == id \notin DOMAIN ts
StoreDeleteTaskErr(ts, id) == id \notin DOMAIN ts

StoreDeleteTask(ts, id) == MapDelete(ts, id)

\* a store that keeps the most recent entry only
AddLog_capped(ls, id, entry) == MapPut(ls, id, <<entry>>)

AddLog(ls, id, entry) ==
    MapPut(ls, id, Append(IF id \in DOMAIN ls THEN ls[id] ELSE <<>>, entry))

GetLogs(ls, id) == IF id \in DOMAIN ls THEN ls[id] ELSE <<>>

LogEntry(level, message) == [Level |-> level, Message |-> message]

(***************************************************************************)
(* websocket.Manager: the hub.  A manager value is a record                *)
(*   Clients : map from task id to the set of clients registered for it    *)
(*   chan    : per client, its TaskID (None: not created), the contents of *)
(*             its Send channel, how many times Send was closed and the    *)
(*             state of its readPump goroutine                             *)
(*   fault   : a send on a closed channel or a second close happened       *)
(***************************************************************************)
WSMessage(type, status, step, progress, text) ==
    [Type |-> type, Status |-> status, Step |-> step, Progress |-> progress, Text |-> text]

NewManager ==
    [Clients |-> [t \in {} |-> {}],
     chan |-> [c \in ClientIds |->
                 [TaskID |-> None, Send |-> <<>>, closes |-> 0, readPump |-> "none"]],
     fault |-> FALSE]

ClientsOf(m, taskID) == IF taskID \in DOMAIN m.Clients THEN m.Clients[taskID] ELSE {}

\* Run, case client := <-m.Register
RunRegister(m, c) ==
    [m EXCEPT !.Clients = MapPut(m.Clients, m.chan[c].TaskID,
                                 ClientsOf(m, m.chan[c].TaskID) \cup {c})]

\* an Unregister case that closes the channel without looking the client up
RunUnregister_noLookup(m, c) ==
    LET t == m.chan[c].TaskID
        rest == ClientsOf(m, t) \ {c}
    IN [m EXCEPT !.Clients = IF t \notin DOMAIN m.Clients THEN @
                               ELSE IF rest = {} THEN MapDelete(m.Clients, t)
                               ELSE MapPut(m.Clients, t, rest),
                 !.chan[c].closes = @ + 1,
                 !.fault = @ \/ m.chan[c].closes > 0]

\* Run, case client := <-m.Unregister
RunUnregister(m, c) ==
    LET t == m.chan[c].TaskID
        rest == ClientsOf(m, t) \ {c}
    IN IF t \in DOMAIN m.Clients /\ c \in m.Clients[t]
       THEN [m EXCEPT !.Clients = IF rest = {} THEN MapDelete(m.Clients, t)
                                   ELSE MapPut(m.Clients, t, rest),
                      !.chan[c].closes = @ + 1,
                      !.fault = @ \/ m.chan[c].closes > 0]
       ELSE m

\* the clients of a broadcast whose Send channel has no room
Saturated(m, cs) == {c \in cs : Len(m.chan[c].Send) >= SendBufferSize}

\* a Run loop that sends a broadcast to the clients of every task
RunBroadcast_allTasks(m, taskID, message) ==
    LET cs == UNION {ClientsOf(m, t) : t \in DOMAIN m.Clients}
        full == Saturated(m, cs)
    IN IF ClientsOf(m, taskID) = {} THEN m
       ELSE [m EXCEPT !.chan = [c \in ClientIds |->
                                   IF c \in cs \ full
                                   THEN [m.chan[c] EXCEPT !.Send = Append(@, message)]
                                   ELSE m.chan[c]]]

\* a Run loop that skips a client whose channel is full and keeps it
RunBroadcast_keepSaturated(m, taskID, message) ==
    LET cs == ClientsOf(m, taskID)
        full == Saturated(m, cs)
    IN IF cs = {} THEN m
       ELSE [m EXCEPT !.chan = [c \in ClientIds |->
                                   IF c \in cs \ full
                                   THEN [m.chan[c] EXCEPT !.Send = Append(@, message)]
                                   ELSE m.chan[c]]]

\* a Run loop whose send puts the message in front of the waiting ones
RunBroadcast_prepend(m, taskID, message) ==
    LET cs == ClientsOf(m, taskID)
        full == Saturated(m, cs)
        rest == cs \ full
    IN IF cs = {} THEN m
       ELSE [m EXCEPT !.Clients = IF rest = {} THEN MapDelete(m.Clients, taskID)
                                   ELSE MapPut(m.Clients, taskID, rest),
                      !.chan = [c \in ClientIds |->
                                   IF c \in rest
                                   THEN [m.chan[c] EXCEPT !.Send = <<message>> \o @]
                                   ELSE IF c \in full
                                   THEN [m.chan[c] EXCEPT !.closes = @ + 1]
                                   ELSE m.chan[c]],
                      !.fault = @ \/ (\E c \in cs : m.chan[c].closes > 0)]

\* a Run loop that closes the channel of a client without room and keeps
\* the client among the task's clients
RunBroadcast_closeKeep(m, taskID, message) ==
    LET cs == ClientsOf(m, taskID)
        full == Saturated(m, cs)
        rest == cs \ full
    IN IF cs = {} THEN m
       ELSE [m EXCEPT !.chan = [c \in ClientIds |->
                                   IF c \in rest
                                   THEN [m.chan[c] EXCEPT !.Send = Append(@, message)]
                                   ELSE IF c \in full
                                   THEN [m.chan[c] EXCEPT !.closes = @ + 1]
                                   ELSE m.chan[c]],
                      !.fault = @ \/ (\E c \in cs : m.chan[c].closes > 0)]

\* Run, case message := <-m.Broadcast: a non-blocking send to every client
\* of the task; a client whose channel is full is removed and closed
RunBroadcast(m, taskID, message) ==
    LET cs == ClientsOf(m, taskID)
        full == Saturated(m, cs)
        rest == cs \ full
    IN IF cs = {} THEN m
       ELSE [m EXCEPT !.Clients = IF rest = {} THEN MapDelete(m.Clients, taskID)
                                   ELSE MapPut(m.Clients, taskID, rest),
                      !.chan = [c \in ClientIds |->
                                   IF c \in rest
                                   THEN [m.chan[c] EXCEPT !.Send = Append(@, message)]
                                   ELSE IF c \in full
                                   THEN [m.chan[c] EXCEPT !.closes = @ + 1]
                                   ELSE m.chan[c]],
                      !.fault = @ \/ (\E c \in cs : m.chan[c].closes > 0)]

\* Manager.SendMessage: hands the message to the Run loop
SendMessage(m, taskID, message) == RunBroadcast(m, taskID, message)

SendTaskStatus(m, taskID, status) ==
    SendMessage(m, taskID, WSMessage("task_status", status, "", 0, ""))
SendProgress(m, taskID, progress, step) ==
    SendMessage(m, taskID, WSMessage("task_progress", "", step, progress, ""))
SendLog(m, taskID, level, text) ==
    SendMessage(m, taskID, WSMessage("task_log", level, "", 0, text))
SendStepStart(m, taskID, step) ==
    SendMessage(m, taskID, WSMessage("step", "start", step, 0, ""))
SendStepComplete(m, taskID, step) ==
    SendMessage(m, taskID, WSMessage("step", "complete", step, 0, ""))
SendStepError(m, taskID, step, errorMsg) ==
    SendMessage(m, taskID, WSMessage("step", "error", step, 0, errorMsg))

(***************************************************************************)
(* MigrationService: the step lists of the three workers.  A step body is  *)
(* a sequence of operations: a progressCallback call, a call of an         *)
(* external collaborator (which returns, returns an error when canFail, or *)
(* panics), or one of the worker's own control constructs.                 *)
(***************************************************************************)
P(percent) == [op |-> "progress", arg |-> "", percent |-> percent, canFail |-> FALSE]
Call(name, canFail) == [op |-> "call", arg |-> name, percent |-> 0, canFail |-> canFail]
Ctl(name) == [op |-> name, arg |-> "", percent |-> 0, canFail |-> FALSE]

Step(name, withProgress, body) == [name |-> name, withProgress |-> withProgress, body |-> body]

StepTestSource == Step("Test source system connection", FALSE, <<Call("TestConnection", TRUE)>>)
StepTestTarget == Step("Test target system connection", FALSE, <<Call("TestConnection", TRUE)>>)

\* executeOnlineMigration step 3, with downloadCasaOSFiles and
\* extractDownloadedFiles inlined
StepDownload ==
    Step("Download and process source data", TRUE,
         <<P(5),
           P(10), Call("downloadRequest", TRUE), P(20), Call("downloadSave", TRUE), P(35),
           P(40), P(45),
           P(45), Call("openZip", TRUE), P(50), Call("extractEntries", TRUE), P(60),
           P(60), P(65), Call("getSystemApps", TRUE),
           P(75), Call("getSystemSettings", TRUE),
           P(85), Call("getUserData", TRUE),
           Ctl("setSourceData"), P(95)>>)

\* executeDataImport step 2
StepParse ==
    Step("Parse import file", TRUE,
         <<Call("importFileOption", TRUE), P(10), P(30),
           Call("mkdirExtractDir", TRUE), Call("detectFileFormat", TRUE),
           Call("extractArchive", TRUE), P(60), Ctl("setSourceData"), P(100)>>)

StepScan ==
    Step("Scan app configuration", TRUE,
         <<P(20), Call("readComposeFiles", TRUE), P(60), Ctl("initStatuses"), P(100)>>)

StepMerge ==
    Step("Merge AppData directory", TRUE,
         <<Ctl("guardAppData"), P(10), Ctl("mergeLoop"), P(100)>>)

StepCompose ==
    Step("Import application configuration", TRUE,
         <<Ctl("guardCompose"), Ctl("composeLoop"), P(100)>>)

StepCleanup ==
    Step("Cleanup local temporary files", TRUE,
         <<P(50), Call("removeTemporaryFiles", FALSE), P(100)>>)

\* executeDataExport step 2; opts is the set of export options that are on
StepExport(opts) ==
    Step("Export system data", TRUE,
         (IF "export_apps" \in opts THEN <<P(20), Call("getSystemApps", TRUE)>> ELSE <<>>)
         \o (IF "export_settings" \in opts THEN <<P(50), Call("getSystemSettings", TRUE)>> ELSE <<>>)
         \o (IF "export_data" \in opts THEN <<P(70), Call("getUserData", TRUE)>> ELSE <<>>)
         \o <<P(90), Call("createExportFile", TRUE), P(100)>>)

ExportOptions == {"export_apps", "export_settings", "export_data"}

Steps(flow, opts) ==
    CASE flow = TaskTypeOnline ->
           <<StepTestSource, StepTestTarget, StepDownload, StepScan, StepMerge,
             StepCompose, StepCleanup>>
      [] flow = TaskTypeExport -> <<StepTestSource, StepExport(opts)>>
      [] flow = TaskTypeImport ->
           <<StepTestTarget, StepParse, StepScan, StepMerge, StepCompose, StepCleanup>>
      [] OTHER -> <<>>

\* the worker's classification of a failed step: the steps after which the
\* worker sets hasCriticalError and returns
IsCritical_downloadNonCritical(stepName) ==
    stepName \in {StepTestSource.name, StepTestTarget.name}

IsCritical_scanCritical(stepName) ==
    stepName \in {StepTestSource.name, StepTestTarget.name, StepDownload.name,
                  StepParse.name, "Export system data", StepScan.name}

IsCritical(stepName) ==
    stepName \in {StepTestSource.name, StepTestTarget.name, StepDownload.name,
                  StepParse.name, "Export system data"}

\* the deferred function of a worker: recover() takes the panic value
recover_nested(panicking) == [r |-> NoPanic, panicking |-> panicking]

recover(panicking) == [r |-> panicking, panicking |-> NoPanic]

\* a deferred function that leaves the task running
DeferredStatus_running(r, hasCriticalError) == TaskStatusRunning

\* the deferred function's terminal status
DeferredStatus(r, hasCriticalError) ==
    IF r # NoPanic THEN TaskStatusFailed
    ELSE IF hasCriticalError THEN TaskStatusFailed
    ELSE TaskStatusCompleted

\* the deferred function's log entry
DeferredLog(r, hasCriticalError) ==
    IF r # NoPanic THEN LogEntry(LogLevelError, <<"panic", r>>)
    ELSE IF hasCriticalError THEN LogEntry(LogLevelError, <<"Critical error occurred; task failed", "">>)
    ELSE LogEntry(LogLevelInfo, <<"completed", "">>)

\* saveAppImportStatuses: the result map it stores
AppsResult_staleSummary(apps, final) ==
    [kind |-> "apps", len |-> Len(apps), summary |-> EmptySummary, final |-> final]

AppsResult(apps, final) ==
    [kind |-> "apps", len |-> Len(apps), summary |-> calculateImportSummary(apps), final |-> final]

(***************************************************************************)
(* services.TaskService: each call acts on the store and on the hub.  A    *)
(* world w is the record of the three shared objects.                      *)
(***************************************************************************)
UpdateTaskStatus(w, id, status) ==
    IF id \notin DOMAIN w.tasks THEN w
    ELSE [w EXCEPT !.tasks = StoreUpdateTaskStatus(@, id, status),
                   !.manager = IF status \in {TaskStatusRunning, TaskStatusCompleted, TaskStatusFailed}
                               THEN SendTaskStatus(@, id, status)
                               ELSE @]

UpdateTaskProgress(w, id, progress) ==
    IF id \notin DOMAIN w.tasks THEN w
    ELSE [w EXCEPT !.tasks = StoreUpdateTaskProgress(@, id, progress),
                   !.manager = SendProgress(@, id, progress, "progress")]

AddTaskLog(w, id, entry) ==
    [w EXCEPT !.logs = AddLog(@, id, entry),
              !.manager = SendLog(@, id, entry.Level, entry.Message[1])]

SetTaskResult(w, id, result) ==
    [w EXCEPT !.tasks = StoreSetTaskResult(@, id, result)]

\* ExecuteStep / ExecuteStepWithProgress, before the body
StepStartWorld(w, id, step) ==
    AddTaskLog([w EXCEPT !.manager = SendStepStart(@, id, step)], id,
               LogEntry(LogLevelInfo, <<"Step started", step>>))

\* an executor that publishes step/complete before it looks at err
StepEndWorld_completeFirst(w, id, step, err) ==
    LET w1 == [w EXCEPT !.manager = SendStepComplete(@, id, step)]
    IN IF err
       THEN AddTaskLog([w1 EXCEPT !.manager = SendStepError(@, id, step, "error")], id,
                       LogEntry(LogLevelError, <<"Step failed", step>>))
       ELSE AddTaskLog(w1, id, LogEntry(LogLevelInfo, <<"Step completed", step>>))

\* ExecuteStep / ExecuteStepWithProgress, after the body returned err
StepEndWorld(w, id, step, err) ==
    IF err
    THEN AddTaskLog([w EXCEPT !.manager = SendStepError(@, id, step, "error")], id,
                    LogEntry(LogLevelError, <<"Step failed", step>>))
    ELSE AddTaskLog([w EXCEPT !.manager = SendStepComplete(@, id, step)], id,
                    LogEntry(LogLevelInfo, <<"Step completed", step>>))

\* the progressCallback of ExecuteStepWithProgress (every caller passes a
\* non-empty message)
ProgressCallback(w, id, step, percent) ==
    AddTaskLog(UpdateTaskProgress([w EXCEPT !.manager = SendProgress(@, id, percent, step)],
                                  id, percent),
               id, LogEntry(LogLevelInfo, <<"progress", step>>))

\* saveAppImportStatuses
saveAppImportStatuses(w, id, apps) == SetTaskResult(w, id, AppsResult(apps, FALSE))

(***************************************************************************)
(* State.                                                                  *)
(***************************************************************************)
VARIABLES
    tasks,            \* MemoryStore.tasks
    logs,             \* MemoryStore.logs
    manager,          \* websocket.Manager and its clients
    wpc,              \* position of the worker of WorkerTask
    wflow,            \* task.Type as the worker holds it
    wopts,            \* task.Options: the export options that are on
    stepIdx,          \* index of the current step in Steps(wflow, wopts)
    bodyIdx,          \* index of the current operation in the step body
    stepErr,          \* the current step body returned an error
    hasCriticalError, \* the worker's local flag
    panicking,        \* value of a panic in flight in the worker goroutine
    recovered,        \* r, the value recover() returned in the deferred function
    appStatuses,      \* backing array of the worker's appStatuses slice
    sourceData,       \* the worker's sourceData map
    loop,             \* state of the per-item loop of the current step
    started,          \* names of the steps whose body was invoked
    attempted,        \* <<phase, app>> pairs whose external call was made
    artifacts,        \* temporary files and directories on disk
    crashed,          \* a panic left a goroutine: the process is gone
    dpc,              \* position of a Handler.DeleteTask request
    statusTrace,      \* history: the values the Status of WorkerTask has held
    calcApp,          \* input of calculateOverallStatus
    calcOut,          \* its output, None before the call
    pubCount,         \* history: per task, the number of SendMessage calls of its producer
    delivered,        \* history: per client, the messages its writePump wrote
    wk,               \* per task, the position of its worker as the store sees it
    importStatusCache,\* Handler.importStatusCache
    cacheExpiry,      \* Handler.cacheExpiry
    cacheMutex,       \* Handler.cacheMutex: its writer and its readers
    req,              \* per HTTP request goroutine, its position and locals
    storeMutex,       \* MemoryStore's four mutexes: their writer and their readers
    storeCall         \* per goroutine, the store operation it is in

storeVars == <<tasks, logs>>
workerVars == <<wpc, wflow, wopts, stepIdx, bodyIdx, stepErr, hasCriticalError,
                panicking, recovered, appStatuses, sourceData, loop, started, attempted,
                artifacts, crashed>>
calcVars == <<calcApp, calcOut>>
apiVars == <<now, wk, importStatusCache, cacheExpiry, cacheMutex, req>>
lockVars == <<storeMutex, storeCall>>
auxVars == <<pubCount, delivered, apiVars, lockVars>>
vars == <<tasks, logs, manager, workerVars, dpc, statusTrace, calcVars, auxVars>>

World == [tasks |-> tasks, logs |-> logs, manager |-> manager]
Commit(w) == /\ tasks' = w.tasks
             /\ logs' = w.logs
             /\ manager' = w.manager
             /\ statusTrace' = IF /\ WorkerTask \in DOMAIN tasks
                                  /\ WorkerTask \in DOMAIN w.tasks
                                  /\ w.tasks[WorkerTask].Status # tasks[WorkerTask].Status
                               THEN Append(statusTrace, w.tasks[WorkerTask].Status)
                               ELSE statusTrace

NilSourceData ==
    [set |-> FALSE, extractedPath |-> FALSE, downloadPath |-> FALSE,
     composeFiles |-> {}, hasGlobalAppData |-> FALSE]

IdleLoop == [phase |-> "next", cur |-> 0, k |-> 0, todo |-> {}, ok |-> TRUE]

\* the apps slice a reader finds in a task's result: the first len elements
\* of the array the worker is still writing to
ResultApps(id) == SubSeq(appStatuses, 1, tasks[id].Result.len)

CurStep == Steps(wflow, wopts)[stepIdx]
CurOp == CurStep.body[bodyIdx]

(***************************************************************************)
(* HTTP request goroutines and the locals of the handler each one runs.    *)
(***************************************************************************)
Reqs == {"r1", "r2"}
Sweeper == "sweep"

\* five minutes, in ticks of the clock
cacheTTL == 1

NoView == [Status |-> None, Progress |-> 0]
\* status: the task.Status the handler read first
IdleReq == [pc |-> "idle", op |-> None, id |-> None, code |-> 0,
            status |-> None, view |-> NoView, cached |-> FALSE]

\* NewHandler: empty cache maps, an unlocked RWMutex
NewHandler ==
    /\ importStatusCache = [t \in {} |-> NoView]
    /\ cacheExpiry = [t \in {} |-> 0]
    /\ cacheMutex = [writer |-> None, readers |-> {}]
    /\ req = [r \in Reqs |-> IdleReq]

(***************************************************************************)
(* MemoryStore's locks.  Each mutex is a sync.RWMutex: writer is the       *)
(* goroutine that holds the write lock or has announced it and waits for   *)
(* the readers to leave (from then on RLock blocks), readers are the       *)
(* goroutines that hold the read lock.  A goroutine in a store operation   *)
(* holds the operation's lock instructions and its position in them.       *)
(***************************************************************************)
Mutexes == {"tasksMutex", "connectionsMutex", "logsMutex", "downloadMutex"}

Goroutines == 1..MaxGoroutines

\* the writer of a mutex that has none
NoGoroutine == 0

IdleCall == [op |-> None, ins |-> <<>>, pc |-> 0, waiting |-> FALSE]

NewMemoryStoreLocks ==
    /\ storeMutex = [m \in Mutexes |-> [writer |-> NoGoroutine, readers |-> {}]]
    /\ storeCall = [g \in Goroutines |-> IdleCall]

(***************************************************************************)
(* Initial state: NewMemoryStore, NewManager, no task created yet.         *)
(***************************************************************************)
Init ==
    /\ tasks = [t \in {} |-> NewTask(TaskTypeOnline)]
    /\ logs = [t \in {} |-> <<>>]
    /\ manager = NewManager
    /\ wpc = "none"
    /\ wflow = None
    /\ wopts = {}
    /\ stepIdx = 0
    /\ bodyIdx = 0
    /\ stepErr = FALSE
    /\ hasCriticalError = FALSE
    /\ panicking = NoPanic
    /\ recovered = NoPanic
    /\ appStatuses = <<>>
    /\ sourceData = NilSourceData
    /\ loop = IdleLoop
    /\ started = {}
    /\ attempted = {}
    /\ artifacts = {}
    /\ crashed = FALSE
    /\ dpc = "idle"
    /\ statusTrace = <<>>
    /\ calcApp = NewAppStatus(1, FALSE)
    /\ calcOut = None
    /\ pubCount = [t \in TaskIds |-> 0]
    /\ delivered = [c \in ClientIds |-> <<>>]
    /\ now = 0
    /\ wk = [t \in TaskIds |-> "none"]
    /\ NewHandler
    /\ NewMemoryStoreLocks

(***************************************************************************)
(* StartOnlineMigration / StartDataExport / StartDataImport: create the    *)
(* task (pending) and start its worker goroutine.                          *)
(***************************************************************************)
StartMigration(flow, opts) ==
    /\ wpc = "none"
    /\ tasks' = SaveTask(tasks, WorkerTask, NewTask(flow))
    /\ wflow' = flow
    /\ wopts' = opts
    /\ wpc' = "start"
    /\ statusTrace' = <<TaskStatusPending>>
    /\ UNCHANGED <<logs, manager, stepIdx, bodyIdx, stepErr, hasCriticalError, panicking,
                   recovered, appStatuses, sourceData, loop, started, attempted,
                   artifacts, crashed, dpc, calcVars, auxVars>>

\* first statement of a worker: UpdateTaskStatus(task.ID, running)
WorkerStart ==
    /\ wpc = "start"
    /\ Commit(UpdateTaskStatus(World, WorkerTask, TaskStatusRunning))
    /\ wpc' = "stepBegin"
    /\ stepIdx' = 1
    /\ UNCHANGED <<wflow, wopts, bodyIdx, stepErr, hasCriticalError, panicking, recovered,
                   appStatuses, sourceData, loop, started, attempted, artifacts, crashed,
                   dpc, calcVars, auxVars>>

\* ExecuteStep / ExecuteStepWithProgress up to the call of the body
WorkerStepBegin ==
    /\ wpc = "stepBegin"
    /\ Commit(StepStartWorld(World, WorkerTask, CurStep.name))
    /\ started' = started \cup {CurStep.name}
    /\ wpc' = "body"
    /\ bodyIdx' = 1
    /\ stepErr' = FALSE
    /\ loop' = IdleLoop
    /\ UNCHANGED <<wflow, wopts, stepIdx, hasCriticalError, panicking, recovered,
                   appStatuses, sourceData, attempted, artifacts, crashed, dpc, calcVars, auxVars>>

InBody(opName) ==
    /\ wpc = "body"
    /\ CurOp.op = opName

\* the body moves to its next operation, or returns nil after the last one
Advance ==
    IF bodyIdx = Len(CurStep.body)
    THEN wpc' = "stepEnd" /\ bodyIdx' = bodyIdx
    ELSE wpc' = wpc /\ bodyIdx' = bodyIdx + 1

\* the body returns (nil, or an error when stepErr' is set)
Return == wpc' = "stepEnd" /\ bodyIdx' = bodyIdx

WorkerProgress ==
    /\ InBody("progress")
    /\ Commit(ProgressCallback(World, WorkerTask, CurStep.name, CurOp.percent))
    /\ Advance
    /\ UNCHANGED <<wflow, wopts, stepIdx, stepErr, hasCriticalError, panicking, recovered,
                   appStatuses, sourceData, loop, started, attempted, artifacts, crashed,
                   dpc, calcVars, auxVars>>

\* what a successful collaborator call leaves on disk
ArtifactsAfter(call, files, sd) ==
    CASE call = "downloadSave" -> files \cup {"downloadPath"}
      [] call \in {"openZip", "mkdirExtractDir"} -> files \cup {"extractedPath"}
      [] call = "removeTemporaryFiles" ->
           files \ ((IF sd.downloadPath THEN {"downloadPath"} ELSE {})
                    \cup (IF sd.extractedPath THEN {"extractedPath"} ELSE {}))
      [] OTHER -> files

WorkerCallOk ==
    /\ InBody("call")
    /\ artifacts' = ArtifactsAfter(CurOp.arg, artifacts, sourceData)
    /\ Advance
    /\ UNCHANGED <<tasks, logs, manager, statusTrace, wflow, wopts, stepIdx, stepErr, hasCriticalError,
                   panicking, recovered, appStatuses, sourceData, loop, started, attempted,
                   crashed, dpc, calcVars, auxVars>>

\* the collaborator returns an error and the body returns it; the scan
\* step logs the readComposeFiles error itself before returning
WorkerCallErr ==
    /\ InBody("call")
    /\ CurOp.canFail
    /\ stepErr' = TRUE
    /\ Return
    /\ IF CurOp.arg = "readComposeFiles"
       THEN Commit(AddTaskLog(World, WorkerTask,
                              LogEntry(LogLevelError, <<"Failed to read compose files", "">>)))
       ELSE UNCHANGED <<tasks, logs, manager, statusTrace>>
    /\ UNCHANGED <<wflow, wopts, stepIdx, hasCriticalError, panicking, recovered,
                   appStatuses, sourceData, loop, started, attempted, artifacts, crashed,
                   dpc, calcVars, auxVars>>

\* a runtime fault inside a step body: the goroutine unwinds to the
\* deferred function
WorkerPanic(v) ==
    /\ wpc = "body"
    /\ \/ CurOp.op = "call"
       \/ CurOp.op \in {"mergeLoop", "composeLoop"} /\ loop.phase = "call"
    /\ panicking' = v
    /\ wpc' = "defer"
    /\ UNCHANGED <<tasks, logs, manager, statusTrace, wflow, wopts, stepIdx, bodyIdx, stepErr,
                   hasCriticalError, recovered, appStatuses, sourceData, loop, started,
                   attempted, artifacts, crashed, dpc, calcVars, auxVars>>

\* sourceData = map[string]interface{}{...} at the end of the acquisition step
WorkerSetSourceData ==
    /\ InBody("setSourceData")
    /\ sourceData' = [set |-> TRUE, extractedPath |-> TRUE,
                      downloadPath |-> (wflow = TaskTypeOnline),
                      composeFiles |-> {}, hasGlobalAppData |-> FALSE]
    /\ Advance
    /\ UNCHANGED <<tasks, logs, manager, statusTrace, wflow, wopts, stepIdx, stepErr, hasCriticalError,
                   panicking, recovered, appStatuses, loop, started, attempted, artifacts,
                   crashed, dpc, calcVars, auxVars>>

\* the scan step appends one AppImportStatus per compose file; n files were
\* found, hasData[i] tells whether app i has an AppData directory
WorkerInitStatuses(n, hasGlobalAppData, hasData) ==
    /\ InBody("initStatuses")
    /\ hasGlobalAppData \/ \A i \in 1..n : ~hasData[i]
    /\ appStatuses' = [i \in 1..n |-> NewAppStatus(i, hasData[i])]
    /\ sourceData' = [sourceData EXCEPT !.composeFiles = 1..n,
                                        !.hasGlobalAppData = hasGlobalAppData]
    /\ Advance
    /\ UNCHANGED <<tasks, logs, manager, statusTrace, wflow, wopts, stepIdx, stepErr, hasCriticalError,
                   panicking, recovered, loop, started, attempted, artifacts, crashed,
                   dpc, calcVars, auxVars>>

\* "Merge AppData directory": the checks before the loop
WorkerGuardAppData ==
    /\ InBody("guardAppData")
    /\ IF ~sourceData.extractedPath
       THEN /\ stepErr' = TRUE
            /\ Return
            /\ UNCHANGED <<tasks, logs, manager, statusTrace>>
       ELSE IF ~sourceData.hasGlobalAppData
       THEN /\ Commit(ProgressCallback(World, WorkerTask, CurStep.name, 100))
            /\ Return
            /\ UNCHANGED stepErr
       ELSE /\ Advance
            /\ UNCHANGED <<tasks, logs, manager, statusTrace, stepErr>>
    /\ UNCHANGED <<wflow, wopts, stepIdx, hasCriticalError, panicking, recovered,
                   appStatuses, sourceData, loop, started, attempted, artifacts, crashed,
                   dpc, calcVars, auxVars>>

AppsWithData == {i \in 1..Len(appStatuses) : appStatuses[i].HasAppData}
Min(S) == CHOOSE x \in S : \A y \in S : x <= y

\* for i := range appStatuses { if !HasAppData continue; completedApps++;
\* progressCallback(20 + 60*completedApps/totalAppsWithData, ...)
WorkerMergeNext ==
    /\ InBody("mergeLoop")
    /\ loop.phase = "next"
    /\ LET rest == {i \in AppsWithData : i > loop.cur}
       IN IF rest = {}
          THEN /\ Advance
               /\ loop' = IdleLoop
               /\ UNCHANGED <<tasks, logs, manager, statusTrace>>
          ELSE /\ loop' = [loop EXCEPT !.phase = "call", !.cur = Min(rest), !.k = @ + 1]
               /\ Commit(ProgressCallback(World, WorkerTask, CurStep.name,
                            20 + ((60 * (loop.k + 1)) \div Cardinality(AppsWithData))))
               /\ UNCHANGED <<wpc, bodyIdx>>
    /\ UNCHANGED <<wflow, wopts, stepIdx, stepErr, hasCriticalError, panicking, recovered,
                   appStatuses, sourceData, started, attempted, artifacts, crashed, dpc,
                   calcVars, auxVars>>

\* uploadAppDataToZimaOS returned: the sub-status is written in place
WorkerMergeCall(ok) ==
    /\ InBody("mergeLoop")
    /\ loop.phase = "call"
    /\ attempted' = attempted \cup {<<"data", appStatuses[loop.cur].AppName>>}
    /\ appStatuses' = IF ok
                      THEN [appStatuses EXCEPT ![loop.cur].AppDataStatus = AppStatusSuccess]
                      ELSE [appStatuses EXCEPT ![loop.cur].AppDataStatus = AppStatusFailed,
                                               ![loop.cur].ErrorMessage = <<"AppData merge failed">>]
    /\ loop' = [loop EXCEPT !.phase = "log", !.ok = ok]
    /\ UNCHANGED <<tasks, logs, manager, statusTrace, wpc, wflow, wopts, stepIdx, bodyIdx, stepErr,
                   hasCriticalError, panicking, recovered, sourceData, started, artifacts,
                   crashed, dpc, calcVars, auxVars>>

WorkerMergeLog ==
    /\ InBody("mergeLoop")
    /\ loop.phase = "log"
    /\ Commit(AddTaskLog(World, WorkerTask,
                 IF loop.ok
                 THEN LogEntry(LogLevelInfo, <<"AppData merge succeeded", "">>)
                 ELSE LogEntry(LogLevelError, <<"AppData merge failed", "">>)))
    /\ loop' = [loop EXCEPT !.phase = "save"]
    /\ UNCHANGED <<wpc, wflow, wopts, stepIdx, bodyIdx, stepErr, hasCriticalError,
                   panicking, recovered, appStatuses, sourceData, started, attempted,
                   artifacts, crashed, dpc, calcVars, auxVars>>

\* the item status is persisted as the merge loop leaves it
WorkerMergeSave ==
    /\ InBody("mergeLoop")
    /\ loop.phase = "save"
    /\ Commit(saveAppImportStatuses(World, WorkerTask, appStatuses))
    /\ loop' = [loop EXCEPT !.phase = "next"]
    /\ UNCHANGED <<wpc, wflow, wopts, stepIdx, bodyIdx, stepErr, hasCriticalError,
                   panicking, recovered, appStatuses, sourceData, started, attempted,
                   artifacts, crashed, dpc, calcVars, auxVars>>

\* "Import application configuration": the checks before the loop
WorkerGuardCompose ==
    /\ InBody("guardCompose")
    /\ IF sourceData.composeFiles = {}
       THEN /\ Commit(ProgressCallback(World, WorkerTask, CurStep.name, 100))
            /\ Return
            /\ UNCHANGED loop
       ELSE /\ Advance
            /\ loop' = [IdleLoop EXCEPT !.todo = sourceData.composeFiles]
            /\ UNCHANGED <<tasks, logs, manager, statusTrace>>
    /\ UNCHANGED <<wflow, wopts, stepIdx, stepErr, hasCriticalError, panicking, recovered,
                   appStatuses, sourceData, started, attempted, artifacts, crashed, dpc,
                   calcVars, auxVars>>

\* the index j with appStatuses[j].AppName == appName, 0 when there is none
FindApp(appName) ==
    LET js == {j \in 1..Len(appStatuses) : appStatuses[j].AppName = appName}
    IN IF js = {} THEN 0 ELSE Min(js)

\* for appName := range composeFiles (map order) { completedCompose++;
\* progressCallback(20 + 70*completedCompose/totalCompose, ...)
WorkerComposeNext ==
    /\ InBody("composeLoop")
    /\ loop.phase = "next"
    /\ IF loop.todo = {}
       THEN /\ Advance
            /\ loop' = IdleLoop
            /\ UNCHANGED <<tasks, logs, manager, statusTrace>>
       ELSE /\ \E appName \in loop.todo :
                 loop' = [loop EXCEPT !.phase = "call", !.cur = appName, !.k = @ + 1,
                                      !.todo = @ \ {appName}]
            /\ Commit(ProgressCallback(World, WorkerTask, CurStep.name,
                         20 + ((70 * (loop.k + 1)) \div Cardinality(sourceData.composeFiles))))
            /\ UNCHANGED <<wpc, bodyIdx>>
    /\ UNCHANGED <<wflow, wopts, stepIdx, stepErr, hasCriticalError, panicking, recovered,
                   appStatuses, sourceData, started, attempted, artifacts, crashed, dpc,
                   calcVars, auxVars>>

\* importComposeToZimaOS returned: the sub-status is written in place
WorkerComposeCall(ok) ==
    /\ InBody("composeLoop")
    /\ loop.phase = "call"
    /\ attempted' = attempted \cup {<<"compose", loop.cur>>}
    /\ LET j == FindApp(loop.cur)
       IN appStatuses' =
            IF j = 0 THEN appStatuses
            ELSE IF ok
            THEN [appStatuses EXCEPT ![j].ComposeStatus = AppStatusSuccess]
            ELSE [appStatuses EXCEPT ![j].ComposeStatus = AppStatusFailed,
                                     ![j].ErrorMessage = Append(@, "Compose import failed")]
    /\ loop' = [loop EXCEPT !.phase = "log", !.ok = ok]
    /\ UNCHANGED <<tasks, logs, manager, statusTrace, wpc, wflow, wopts, stepIdx, bodyIdx, stepErr,
                   hasCriticalError, panicking, recovered, sourceData, started, artifacts,
                   crashed, dpc, calcVars, auxVars>>

WorkerComposeLog ==
    /\ InBody("composeLoop")
    /\ loop.phase = "log"
    /\ Commit(AddTaskLog(World, WorkerTask,
                 IF loop.ok
                 THEN LogEntry(LogLevelInfo, <<"compose import succeeded", "">>)
                 ELSE LogEntry(LogLevelError, <<"compose import failed", "">>)))
    /\ loop' = [loop EXCEPT !.phase = "calc"]
    /\ UNCHANGED <<wpc, wflow, wopts, stepIdx, bodyIdx, stepErr, hasCriticalError,
                   panicking, recovered, appStatuses, sourceData, started, attempted,
                   artifacts, crashed, dpc, calcVars, auxVars>>

\* appStatuses[j].OverallStatus = s.calculateOverallStatus(appStatuses[j])
WorkerComposeCalc ==
    /\ InBody("composeLoop")
    /\ loop.phase = "calc"
    /\ LET j == FindApp(loop.cur)
       IN appStatuses' =
            IF j = 0 THEN appStatuses
            ELSE [appStatuses EXCEPT ![j].OverallStatus = calculateOverallStatus(appStatuses[j])]
    /\ loop' = [loop EXCEPT !.phase = "save"]
    /\ UNCHANGED <<tasks, logs, manager, statusTrace, wpc, wflow, wopts, stepIdx, bodyIdx, stepErr,
                   hasCriticalError, panicking, recovered, sourceData, started, attempted,
                   artifacts, crashed, dpc, calcVars, auxVars>>

WorkerComposeSave ==
    /\ InBody("composeLoop")
    /\ loop.phase = "save"
    /\ Commit(saveAppImportStatuses(World, WorkerTask, appStatuses))
    /\ loop' = [loop EXCEPT !.phase = "next"]
    /\ UNCHANGED <<wpc, wflow, wopts, stepIdx, bodyIdx, stepErr, hasCriticalError,
                   panicking, recovered, appStatuses, sourceData, started, attempted,
                   artifacts, crashed, dpc, calcVars, auxVars>>

LastStep == stepIdx = Len(Steps(wflow, wopts))

\* the worker goes on to its next step, or to the code after the last step
NextStep ==
    IF LastStep
    THEN wpc' = "finalResult" /\ stepIdx' = stepIdx
    ELSE wpc' = "stepBegin" /\ stepIdx' = stepIdx + 1

\* ExecuteStep / ExecuteStepWithProgress after the body, and the worker's
\* `if err != nil` that follows: a critical step sets hasCriticalError and
\* returns, a non-critical one goes on to log a warning
WorkerStepEnd ==
    /\ wpc = "stepEnd"
    /\ Commit(StepEndWorld(World, WorkerTask, CurStep.name, stepErr))
    /\ IF stepErr /\ IsCritical(CurStep.name)
       THEN /\ hasCriticalError' = TRUE
            /\ wpc' = "defer"
            /\ UNCHANGED stepIdx
       ELSE IF stepErr
       THEN /\ wpc' = "warn"
            /\ UNCHANGED <<hasCriticalError, stepIdx>>
       ELSE /\ NextStep
            /\ UNCHANGED hasCriticalError
    /\ UNCHANGED <<wflow, wopts, bodyIdx, stepErr, panicking, recovered, appStatuses,
                   sourceData, loop, started, attempted, artifacts, crashed, dpc, calcVars, auxVars>>

\* a non-critical step failed: warning log; after a failed scan the worker
\* also resets appStatuses and the scan's entries of sourceData
WorkerWarn ==
    /\ wpc = "warn"
    /\ Commit(AddTaskLog(World, WorkerTask,
                         LogEntry(LogLevelWarning, <<"continuing with next steps", CurStep.name>>)))
    /\ IF CurStep.name = StepScan.name
       THEN /\ appStatuses' = <<>>
            /\ sourceData' = [sourceData EXCEPT !.composeFiles = {},
                                                !.hasGlobalAppData = FALSE]
       ELSE UNCHANGED <<appStatuses, sourceData>>
    /\ NextStep
    /\ UNCHANGED <<wflow, wopts, bodyIdx, stepErr, hasCriticalError, panicking, recovered,
                   loop, started, attempted, artifacts, crashed, dpc, calcVars, auxVars>>

\* after the last step: SetTaskResult with the final payload
WorkerFinalResult ==
    /\ wpc = "finalResult"
    /\ Commit(SetTaskResult(World, WorkerTask,
                            IF wflow = TaskTypeExport THEN ExportResult
                            ELSE AppsResult(appStatuses, TRUE)))
    /\ wpc' = "finalProgress"
    /\ UNCHANGED <<wflow, wopts, stepIdx, bodyIdx, stepErr, hasCriticalError, panicking,
                   recovered, appStatuses, sourceData, loop, started, attempted, artifacts,
                   crashed, dpc, calcVars, auxVars>>

\* UpdateTaskProgress(task.ID, 100), then the function returns
WorkerFinalProgress ==
    /\ wpc = "finalProgress"
    /\ Commit(UpdateTaskProgress(World, WorkerTask, 100))
    /\ wpc' = "defer"
    /\ UNCHANGED <<wflow, wopts, stepIdx, bodyIdx, stepErr, hasCriticalError, panicking,
                   recovered, appStatuses, sourceData, loop, started, attempted, artifacts,
                   crashed, dpc, calcVars, auxVars>>

\* the deferred function: r := recover() and the terminal status write
WorkerDeferStatus ==
    /\ wpc = "defer"
    /\ recovered' = recover(panicking).r
    /\ panicking' = recover(panicking).panicking
    /\ Commit(UpdateTaskStatus(World, WorkerTask, DeferredStatus(recovered', hasCriticalError)))
    /\ wpc' = "deferLog"
    /\ UNCHANGED <<wflow, wopts, stepIdx, bodyIdx, stepErr, hasCriticalError, appStatuses,
                   sourceData, loop, started, attempted, artifacts, crashed, dpc, calcVars, auxVars>>

\* the deferred function: its log line; the export worker ends here
WorkerDeferLog ==
    /\ wpc = "deferLog"
    /\ Commit(AddTaskLog(World, WorkerTask, DeferredLog(recovered, hasCriticalError)))
    /\ IF wflow = TaskTypeExport
       THEN wpc' = "done" /\ crashed' = (panicking # NoPanic)
       ELSE wpc' = "deferSave" /\ UNCHANGED crashed
    /\ UNCHANGED <<wflow, wopts, stepIdx, bodyIdx, stepErr, hasCriticalError, panicking,
                   recovered, appStatuses, sourceData, loop, started, attempted, artifacts,
                   dpc, calcVars, auxVars>>

\* the deferred function: saveAppImportStatuses(task.ID, appStatuses); a
\* panic that was not recovered leaves the goroutine here
WorkerDeferSave ==
    /\ wpc = "deferSave"
    /\ Commit(saveAppImportStatuses(World, WorkerTask, appStatuses))
    /\ wpc' = "done"
    /\ crashed' = (panicking # NoPanic)
    /\ UNCHANGED <<wflow, wopts, stepIdx, bodyIdx, stepErr, hasCriticalError, panicking,
                   recovered, appStatuses, sourceData, loop, started, attempted, artifacts,
                   dpc, calcVars, auxVars>>

(***************************************************************************)
(* Handler.DeleteTask: GetTask and the status check, then, in a second     *)
(* critical section, MemoryStore.DeleteTask.                               *)
(***************************************************************************)
DeleteTaskCheck ==
    /\ dpc = "idle"
    /\ WorkerTask \in DOMAIN tasks
    /\ tasks[WorkerTask].Status # TaskStatusRunning
    /\ dpc' = "checked"
    /\ UNCHANGED <<tasks, logs, manager, statusTrace, workerVars, calcVars, auxVars>>

DeleteTaskStore ==
    /\ dpc = "checked"
    /\ dpc' = "idle"
    /\ IF WorkerTask \in DOMAIN tasks
       THEN /\ tasks' = StoreDeleteTask(tasks, WorkerTask)
            /\ logs' = MapDelete(logs, WorkerTask)
       ELSE UNCHANGED <<tasks, logs>>
    /\ UNCHANGED <<manager, workerVars, statusTrace, calcVars, auxVars>>

(***************************************************************************)
(* The cancel request of the frontend (useStore.ts cancelTask): it sets    *)
(* the status of a running task to cancelled through the status setter.    *)
(***************************************************************************)
CancelTask ==
    /\ WorkerTask \in DOMAIN tasks
    /\ tasks[WorkerTask].Status = TaskStatusRunning
    /\ Commit(UpdateTaskStatus(World, WorkerTask, TaskStatusCancelled))
    /\ UNCHANGED <<workerVars, dpc, calcVars, auxVars>>

Worker ==
    \/ \E flow \in Flows : \E opts \in SUBSET ExportOptions :
          (flow = TaskTypeExport \/ opts = {}) /\ StartMigration(flow, opts)
    \/ WorkerStart
    \/ WorkerStepBegin
    \/ WorkerProgress
    \/ WorkerCallOk
    \/ WorkerCallErr
    \/ \E v \in PanicValues : WorkerPanic(v)
    \/ WorkerSetSourceData
    \/ \E n \in 0..MaxApps : \E g \in BOOLEAN : \E hd \in [1..n -> BOOLEAN] :
          WorkerInitStatuses(n, g, hd)
    \/ WorkerGuardAppData
    \/ WorkerMergeNext
    \/ \E ok \in BOOLEAN : WorkerMergeCall(ok)
    \/ WorkerMergeLog
    \/ WorkerMergeSave
    \/ WorkerGuardCompose
    \/ WorkerComposeNext
    \/ \E ok \in BOOLEAN : WorkerComposeCall(ok)
    \/ WorkerComposeLog
    \/ WorkerComposeCalc
    \/ WorkerComposeSave
    \/ WorkerStepEnd
    \/ WorkerWarn
    \/ WorkerFinalResult
    \/ WorkerFinalProgress
    \/ WorkerDeferStatus
    \/ WorkerDeferLog
    \/ WorkerDeferSave

Next ==
    \/ Worker
    \/ DeleteTaskCheck
    \/ DeleteTaskStore

Spec == Init /\ [][Next]_vars

NextCancel ==
    \/ Next
    \/ CancelTask

SpecCancel == Init /\ [][NextCancel]_vars

(***************************************************************************)
(* The hub on its own: WebSocket connections come and go while messages    *)
(* are published.  Manager.HandleWebSocket creates the client and hands it *)
(* to the Run loop; the client's readPump unregisters it once when the     *)
(* connection ends; its writePump takes the messages off Send.             *)
(***************************************************************************)
hubVars == <<tasks, logs, workerVars, dpc, statusTrace, calcVars, auxVars>>

HandleWebSocket(c, taskID) ==
    /\ manager.chan[c].TaskID = None
    /\ \A d \in ClientIds : d < c => manager.chan[d].TaskID # None
    /\ manager' = RunRegister([manager EXCEPT !.chan[c].TaskID = taskID,
                                               !.chan[c].readPump = "running"], c)
    /\ UNCHANGED hubVars

readPump(c) ==
    /\ manager.chan[c].readPump = "running"
    /\ manager' = RunUnregister([manager EXCEPT !.chan[c].readPump = "done"], c)
    /\ UNCHANGED hubVars

\* writePump: message, ok := <-client.Send
ReceiveFromSend(m, c) == [m EXCEPT !.chan[c].Send = Tail(@)]

writePump(c) ==
    /\ manager.chan[c].TaskID # None
    /\ manager.chan[c].Send # <<>>
    /\ manager' = ReceiveFromSend(manager, c)
    /\ UNCHANGED hubVars

Broadcast(taskID, message) ==
    /\ manager' = SendMessage(manager, taskID, message)
    /\ UNCHANGED hubVars

NextHub ==
    \/ \E c \in ClientIds : \E t \in TaskIds : HandleWebSocket(c, t)
    \/ \E c \in ClientIds : readPump(c)
    \/ \E c \in ClientIds : writePump(c)
    \/ \E t \in TaskIds : \E msg \in Msgs : Broadcast(t, msg)

SpecHub == Init /\ [][NextHub]_vars

(***************************************************************************)
(* The hub with one producer per task: the producer (the task's worker)    *)
(* calls SendMessage for its events one after the other; event k of a task *)
(* is the number k.  delivered records what each writePump wrote to its    *)
(* connection.                                                             *)
(***************************************************************************)
orderFrame == <<tasks, logs, workerVars, dpc, statusTrace, calcVars, lockVars>>

Publish(taskID) ==
    /\ pubCount[taskID] < MaxPublish
    /\ pubCount' = [pubCount EXCEPT ![taskID] = @ + 1]
    /\ manager' = SendMessage(manager, taskID, pubCount[taskID] + 1)
    /\ UNCHANGED <<orderFrame, delivered, apiVars>>

writePumpWrite(c) ==
    /\ manager.chan[c].TaskID # None
    /\ manager.chan[c].Send # <<>>
    /\ manager' = ReceiveFromSend(manager, c)
    /\ delivered' = [delivered EXCEPT ![c] = Append(@, Head(manager.chan[c].Send))]
    /\ UNCHANGED <<orderFrame, pubCount, apiVars>>

NextOrder ==
    \/ \E c \in ClientIds : \E t \in TaskIds : HandleWebSocket(c, t)
    \/ \E c \in ClientIds : readPump(c)
    \/ \E c \in ClientIds : writePumpWrite(c)
    \/ \E t \in TaskIds : Publish(t)

SpecOrder == Init /\ [][NextOrder]_vars

(***************************************************************************)
(* The export worker with an observer: the client connects when the task   *)
(* has been created and its writePump writes what the worker publishes.    *)
(***************************************************************************)
Observer == 1

NextEvents ==
    \/ \E opts \in SUBSET ExportOptions : StartMigration(TaskTypeExport, opts)
    \/ wpc = "start" /\ HandleWebSocket(Observer, WorkerTask)
    \/ writePumpWrite(Observer)
    \/ WorkerStart
    \/ WorkerStepBegin
    \/ WorkerProgress
    \/ WorkerCallOk
    \/ WorkerCallErr
    \/ \E v \in PanicValues : WorkerPanic(v)
    \/ WorkerStepEnd
    \/ WorkerFinalResult
    \/ WorkerFinalProgress
    \/ WorkerDeferStatus
    \/ WorkerDeferLog

SpecEvents == Init /\ [][NextEvents]_vars

(***************************************************************************)
(* calculateOverallStatus on its own: called once on any item whose        *)
(* sub-statuses are among the values the program writes.                   *)
(***************************************************************************)
AppImportStatuses ==
    [AppName : {1}, HasAppData : BOOLEAN, AppDataStatus : AppStatusValues,
     ComposeStatus : AppStatusValues, OverallStatus : AppStatusValues,
     ErrorMessage : {<<>>}, DownloadURL : {<<>>}]

InitCalc ==
    /\ tasks = [t \in {} |-> NewTask(TaskTypeOnline)]
    /\ logs = [t \in {} |-> <<>>]
    /\ manager = NewManager
    /\ wpc = "none"
    /\ wflow = None
    /\ wopts = {}
    /\ stepIdx = 0
    /\ bodyIdx = 0
    /\ stepErr = FALSE
    /\ hasCriticalError = FALSE
    /\ panicking = NoPanic
    /\ recovered = NoPanic
    /\ appStatuses = <<>>
    /\ sourceData = NilSourceData
    /\ loop = IdleLoop
    /\ started = {}
    /\ attempted = {}
    /\ artifacts = {}
    /\ crashed = FALSE
    /\ dpc = "idle"
    /\ statusTrace = <<>>
    /\ calcApp \in AppImportStatuses
    /\ calcOut = None
    /\ pubCount = [t \in TaskIds |-> 0]
    /\ delivered = [c \in ClientIds |-> <<>>]
    /\ now = 0
    /\ wk = [t \in TaskIds |-> "none"]
    /\ NewHandler
    /\ NewMemoryStoreLocks

CalcOverall ==
    /\ calcOut = None
    /\ calcOut' = calculateOverallStatus(calcApp)
    /\ UNCHANGED <<tasks, logs, manager, workerVars, dpc, statusTrace, calcApp, auxVars>>

SpecCalc == InitCalc /\ [][CalcOverall]_vars

(***************************************************************************)
(* The HTTP handlers against the store.  The worker of a task is reduced   *)
(* to its calls of the TaskService setters: status running first, then     *)
(* progress, log and result writes, then the final status.  The clock      *)
(* advances between any two steps.                                         *)
(***************************************************************************)
apiFrame == <<workerVars, dpc, calcVars, pubCount, delivered, lockVars>>
cacheVars == <<importStatusCache, cacheExpiry, cacheMutex>>

ProgressValues == {50, 100}

Tick ==
    /\ now < MaxTime
    /\ now' = now + 1
    /\ UNCHANGED <<tasks, logs, manager, statusTrace, apiFrame, wk, cacheVars, req>>

\* StartOnlineMigration / StartDataImport: CreateTask, then go execute...
ApiCreateTask(id, taskType) ==
    /\ wk[id] = "none"
    /\ wk' = [wk EXCEPT ![id] = "created"]
    /\ tasks' = SaveTask(tasks, id, NewTask(taskType))
    /\ UNCHANGED <<logs, manager, statusTrace, apiFrame, now, cacheVars, req>>

\* the worker's first call: UpdateTaskStatus(task.ID, running)
ApiWorkerStart(id) ==
    /\ wk[id] = "created"
    /\ wk' = [wk EXCEPT ![id] = "running"]
    /\ Commit(UpdateTaskStatus(World, id, TaskStatusRunning))
    /\ UNCHANGED <<apiFrame, now, cacheVars, req>>

ApiWorkerProgress(id, progress) ==
    /\ wk[id] = "running"
    /\ Commit(UpdateTaskProgress(World, id, progress))
    /\ UNCHANGED <<apiFrame, now, wk, cacheVars, req>>

ApiWorkerLog(id) ==
    /\ wk[id] = "running"
    /\ IF id \in DOMAIN logs THEN Len(logs[id]) < MaxLogs ELSE TRUE
    /\ Commit(AddTaskLog(World, id, LogEntry(LogLevelInfo, <<"Step started", "step">>)))
    /\ UNCHANGED <<apiFrame, now, wk, cacheVars, req>>

ApiWorkerResult(id) ==
    /\ wk[id] = "running"
    /\ Commit(SetTaskResult(World, id, ExportResult))
    /\ UNCHANGED <<apiFrame, now, wk, cacheVars, req>>

\* the scan step: the worker builds its item list and saves it
ApiWorkerApps(id) ==
    /\ wk[id] = "running"
    /\ appStatuses = <<>>
    /\ appStatuses' = <<NewAppStatus(1, FALSE)>>
    /\ Commit(saveAppImportStatuses(World, id, <<NewAppStatus(1, FALSE)>>))
    /\ UNCHANGED <<now, wk, cacheVars, req,
                   wpc, wflow, wopts, stepIdx, bodyIdx, stepErr, hasCriticalError,
                   panicking, recovered, sourceData, loop, started, attempted,
                   artifacts, crashed, dpc, calcVars, pubCount, delivered, lockVars>>

\* the worker's deferred function: the final status
ApiWorkerFinish(id, status) ==
    /\ wk[id] = "running"
    /\ wk' = [wk EXCEPT ![id] = "done"]
    /\ Commit(UpdateTaskStatus(World, id, status))
    /\ UNCHANGED <<apiFrame, now, cacheVars, req>>

\* a request goroutine returns; the next request can use it
ReqReturn(r) ==
    /\ req[r].pc = "done"
    /\ req' = [req EXCEPT ![r] = IdleReq]
    /\ UNCHANGED <<tasks, logs, manager, statusTrace, apiFrame, now, wk, cacheVars>>

\* Handler.DeleteTask up to the call of taskService.DeleteTask: 404 when
\* GetTask fails, 400 when the task is running
DeleteTaskGet(r, id) ==
    /\ req[r].pc = "idle"
    /\ req' = [req EXCEPT ![r] =
                 [IdleReq EXCEPT !.op = "delete", !.id = id,
                                 !.pc = IF StoreGetTaskErr(tasks, id) THEN "done"
                                        ELSE IF tasks[id].Status = TaskStatusRunning THEN "done"
                                        ELSE "delete",
                                 !.code = IF StoreGetTaskErr(tasks, id) THEN 404
                                          ELSE IF tasks[id].Status = TaskStatusRunning THEN 400
                                          ELSE 0]]
    /\ UNCHANGED <<tasks, logs, manager, statusTrace, apiFrame, now, wk, cacheVars>>

\* Handler.DeleteTask: taskService.DeleteTask, 500 when it fails, else 200
DeleteTaskDo(r) ==
    /\ req[r].pc = "delete"
    /\ IF StoreDeleteTaskErr(tasks, req[r].id)
       THEN /\ req' = [req EXCEPT ![r].pc = "done", ![r].code = 500]
            /\ UNCHANGED <<tasks, logs>>
       ELSE /\ req' = [req EXCEPT ![r].pc = "done", ![r].code = 200]
            /\ tasks' = StoreDeleteTask(tasks, req[r].id)
            /\ logs' = MapDelete(logs, req[r].id)
    /\ UNCHANGED <<manager, statusTrace, apiFrame, now, wk, cacheVars>>

\* the task a handler holds a pointer to: the stored object, which the
\* worker keeps writing to
TaskOf(r) == tasks[req[r].id]

ImportTypes == {TaskTypeImport, TaskTypeOnline}

\* Handler.GetImportStatus up to the first read of task.Status: 404 when
\* GetTask fails, 400 for a task type without import status
GetImportStatusGet(r, id) ==
    /\ req[r].pc = "idle"
    /\ req' = [req EXCEPT ![r] =
                 [IdleReq EXCEPT !.op = "status", !.id = id,
                                 !.pc = IF StoreGetTaskErr(tasks, id) THEN "done"
                                        ELSE IF tasks[id].Type \notin ImportTypes THEN "done"
                                        ELSE "status",
                                 !.code = IF StoreGetTaskErr(tasks, id) THEN 404
                                          ELSE IF tasks[id].Type \notin ImportTypes THEN 400
                                          ELSE 0]]
    /\ UNCHANGED <<tasks, logs, manager, statusTrace, apiFrame, now, wk, cacheVars>>

\* a handler that always consults the cache
GetImportStatusRead_always(r) ==
    /\ req[r].pc = "status"
    /\ req' = [req EXCEPT ![r].status = TaskOf(r).Status, ![r].pc = "rlock"]
    /\ UNCHANGED <<tasks, logs, manager, statusTrace, apiFrame, now, wk, cacheVars>>

\* if task.Status != running: the cache is consulted only then
GetImportStatusRead(r) ==
    /\ req[r].pc = "status"
    /\ req' = [req EXCEPT ![r].status = TaskOf(r).Status,
                          ![r].pc = IF TaskOf(r).Status # TaskStatusRunning
                                    THEN "rlock" ELSE "compute"]
    /\ UNCHANGED <<tasks, logs, manager, statusTrace, apiFrame, now, wk, cacheVars>>

\* getCachedImportStatus: h.cacheMutex.RLock()
getCachedRLock(r) ==
    /\ req[r].pc = "rlock"
    /\ cacheMutex.writer = None
    /\ cacheMutex' = [cacheMutex EXCEPT !.readers = @ \cup {r}]
    /\ req' = [req EXCEPT ![r].pc = "lookup"]
    /\ UNCHANGED <<tasks, logs, manager, statusTrace, apiFrame, now, wk,
                   importStatusCache, cacheExpiry>>

\* getCachedImportStatus: the lookup; an entry that has expired is deleted
\* from both maps.  A hit is the response of the handler.
getCachedLookup(r) ==
    /\ req[r].pc = "lookup"
    /\ LET id == req[r].id
           exists == id \in DOMAIN importStatusCache
           fresh == id \in DOMAIN cacheExpiry /\ now < cacheExpiry[id]
       IN IF exists /\ fresh
          THEN /\ req' = [req EXCEPT ![r].pc = "hit", ![r].view = importStatusCache[id],
                                     ![r].cached = TRUE]
               /\ UNCHANGED <<importStatusCache, cacheExpiry>>
          ELSE /\ req' = [req EXCEPT ![r].pc = "miss"]
               /\ IF exists
                  THEN /\ importStatusCache' = MapDelete(importStatusCache, id)
                       /\ cacheExpiry' = MapDelete(cacheExpiry, id)
                  ELSE UNCHANGED <<importStatusCache, cacheExpiry>>
    /\ UNCHANGED <<tasks, logs, manager, statusTrace, apiFrame, now, wk, cacheMutex>>

\* getCachedImportStatus: the deferred RUnlock, and what the handler does
\* with the result
getCachedRUnlock(r) ==
    /\ req[r].pc \in {"hit", "miss"}
    /\ cacheMutex' = [cacheMutex EXCEPT !.readers = @ \ {r}]
    /\ req' = [req EXCEPT ![r].pc = IF req[r].pc = "hit" THEN "done" ELSE "compute",
                          ![r].code = IF req[r].pc = "hit" THEN 200 ELSE 0]
    /\ UNCHANGED <<tasks, logs, manager, statusTrace, apiFrame, now, wk,
                   importStatusCache, cacheExpiry>>

\* apps = appsSlice, then apps[i].DownloadURL = ...: the items of the task's
\* result after the handler's loop (the slice shares its array with the
\* result and with the worker)
GetImportStatusApps(r) ==
    LET n == IF TaskOf(r).Result.kind = "apps" THEN TaskOf(r).Result.len ELSE 0
    IN [i \in 1..Len(appStatuses) |->
          IF i <= n
          THEN [appStatuses[i] EXCEPT !.DownloadURL = <<req[r].id, appStatuses[i].AppName>>]
          ELSE appStatuses[i]]

\* the response is built from the task: the items get their download link,
\* Status and Progress are read again
GetImportStatusCompute(r) ==
    /\ req[r].pc = "compute"
    /\ appStatuses' = GetImportStatusApps(r)
    /\ req' = [req EXCEPT ![r].view = [Status |-> TaskOf(r).Status,
                                       Progress |-> TaskOf(r).Progress],
                          ![r].pc = "check"]
    /\ UNCHANGED <<tasks, logs, manager, statusTrace, now, wk, cacheVars,
                   wpc, wflow, wopts, stepIdx, bodyIdx, stepErr, hasCriticalError,
                   panicking, recovered, sourceData, loop, started, attempted,
                   artifacts, crashed, dpc, calcVars, pubCount, delivered, lockVars>>

\* if task.Status != running, a third read: the response is cached only then
GetImportStatusCheck(r) ==
    /\ req[r].pc = "check"
    /\ req' = [req EXCEPT ![r].pc = IF TaskOf(r).Status # TaskStatusRunning
                                    THEN "lock" ELSE "done",
                          ![r].code = IF TaskOf(r).Status # TaskStatusRunning
                                      THEN 0 ELSE 200]
    /\ UNCHANGED <<tasks, logs, manager, statusTrace, apiFrame, now, wk, cacheVars>>

\* cacheImportStatus: h.cacheMutex.Lock()
cacheImportStatusLock(r) ==
    /\ req[r].pc = "lock"
    /\ cacheMutex.writer = None
    /\ cacheMutex.readers = {}
    /\ cacheMutex' = [cacheMutex EXCEPT !.writer = r]
    /\ req' = [req EXCEPT ![r].pc = "store"]
    /\ UNCHANGED <<tasks, logs, manager, statusTrace, apiFrame, now, wk,
                   importStatusCache, cacheExpiry>>

\* cacheImportStatus: both maps are written, the deferred Unlock, and the
\* handler answers
cacheImportStatus(r) ==
    /\ req[r].pc = "store"
    /\ importStatusCache' = MapPut(importStatusCache, req[r].id, req[r].view)
    /\ cacheExpiry' = MapPut(cacheExpiry, req[r].id, now + cacheTTL)
    /\ cacheMutex' = [cacheMutex EXCEPT !.writer = None]
    /\ req' = [req EXCEPT ![r].pc = "done", ![r].code = 200]
    /\ UNCHANGED <<tasks, logs, manager, statusTrace, apiFrame, now, wk>>

\* clearExpiredCache: h.cacheMutex.Lock()
clearExpiredCacheLock ==
    /\ cacheMutex.writer = None
    /\ cacheMutex.readers = {}
    /\ cacheMutex' = [cacheMutex EXCEPT !.writer = Sweeper]
    /\ UNCHANGED <<tasks, logs, manager, statusTrace, apiFrame, now, wk,
                   importStatusCache, cacheExpiry, req>>

\* clearExpiredCache: the entries past their expiry are deleted, Unlock
clearExpiredCache ==
    /\ cacheMutex.writer = Sweeper
    /\ LET keep == {id \in DOMAIN cacheExpiry : ~(now > cacheExpiry[id])}
       IN /\ cacheExpiry' = [id \in keep |-> cacheExpiry[id]]
          /\ importStatusCache' =
                [id \in (DOMAIN importStatusCache) \ ((DOMAIN cacheExpiry) \ keep) |->
                    importStatusCache[id]]
    /\ cacheMutex' = [cacheMutex EXCEPT !.writer = None]
    /\ UNCHANGED <<tasks, logs, manager, statusTrace, apiFrame, now, wk, req>>

NextApi ==
    \/ Tick
    \/ \E taskType \in {TaskTypeOnline, TaskTypeExport} : ApiCreateTask(WorkerTask, taskType)
    \/ ApiWorkerStart(WorkerTask)
    \/ \E progress \in ProgressValues : ApiWorkerProgress(WorkerTask, progress)
    \/ ApiWorkerLog(WorkerTask)
    \/ ApiWorkerResult(WorkerTask)
    \/ \E status \in {TaskStatusCompleted, TaskStatusFailed} :
          ApiWorkerFinish(WorkerTask, status)
    \/ \E r \in Reqs : ReqReturn(r)
    \/ \E r \in Reqs : \E id \in TaskIds : DeleteTaskGet(r, id)
    \/ \E r \in Reqs : DeleteTaskDo(r)

SpecApi == Init /\ [][NextApi]_vars

\* the status query and its cache, concurrent with the worker's writes
NextCache ==
    \/ Tick
    \/ \E taskType \in {TaskTypeOnline, TaskTypeExport} : ApiCreateTask(WorkerTask, taskType)
    \/ ApiWorkerStart(WorkerTask)
    \/ \E progress \in ProgressValues : ApiWorkerProgress(WorkerTask, progress)
    \/ \E status \in {TaskStatusCompleted, TaskStatusFailed} :
          ApiWorkerFinish(WorkerTask, status)
    \/ \E r \in Reqs : ReqReturn(r)
    \/ \E r \in Reqs : \E id \in TaskIds : GetImportStatusGet(r, id)
    \/ \E r \in Reqs : GetImportStatusRead(r)
    \/ \E r \in Reqs : getCachedRLock(r)
    \/ \E r \in Reqs : getCachedLookup(r)
    \/ \E r \in Reqs : getCachedRUnlock(r)
    \/ \E r \in Reqs : GetImportStatusCompute(r)
    \/ \E r \in Reqs : GetImportStatusCheck(r)
    \/ \E r \in Reqs : cacheImportStatusLock(r)
    \/ \E r \in Reqs : cacheImportStatus(r)
    \/ clearExpiredCacheLock
    \/ clearExpiredCache

SpecCache == Init /\ [][NextCache]_vars

\* the same, with a worker that has items in its result
NextQuery ==
    \/ NextCache
    \/ ApiWorkerApps(WorkerTask)

SpecQuery == Init /\ [][NextQuery]_vars

(***************************************************************************)
(* Properties of the task status and of the pipeline executor.             *)
(***************************************************************************)
TaskExists == WorkerTask \in DOMAIN tasks
WorkerDone == wpc = "done"
\* the connectivity checks and each flow's bulk data-acquisition step
CriticalStepNames ==
    {"Test source system connection", "Test target system connection",
     "Download and process source data", "Parse import file", "Export system data"}
CriticalStepFailed ==
    /\ wpc \notin {"none", "start", "stepBegin", "body"}
    /\ stepErr
    /\ CurStep.name \in CriticalStepNames
Faulted == panicking # NoPanic \/ recovered # NoPanic

AllowedTransitions ==
    {<<TaskStatusPending, TaskStatusRunning>>,
     <<TaskStatusRunning, TaskStatusCompleted>>,
     <<TaskStatusRunning, TaskStatusFailed>>,
     <<TaskStatusRunning, TaskStatusCancelled>>}

\* C1: the status of a task changes only along pending -> running and
\* running -> completed | failed | cancelled; a terminal status never changes.
C1_OnlyAllowedTransitions ==
    [][(TaskExists /\ TaskExists' /\ tasks'[WorkerTask].Status # tasks[WorkerTask].Status)
        => <<tasks[WorkerTask].Status, tasks'[WorkerTask].Status>> \in AllowedTransitions]_vars

\* C2: the terminal status write of the worker's deferred function leaves a
\* task that is cancelled in the status cancelled.
C2_FinalWriteKeepsCancelled ==
    [][(wpc = "defer" /\ wpc' = "deferLog" /\ TaskExists
        /\ tasks[WorkerTask].Status = TaskStatusCancelled)
        => tasks'[WorkerTask].Status = TaskStatusCancelled]_vars

\* C3: once a critical step has returned an error the worker goes straight
\* to its deferred function: no step after the failed one is started and the
\* task ends failed; if the failed step is the first connectivity check the
\* status went pending, running, failed and the result has no item.
C3_CriticalFailureStops ==
    CriticalStepFailed =>
        /\ wpc \in {"stepEnd", "defer", "deferLog", "deferSave", "done"}
        /\ started = {Steps(wflow, wopts)[i].name : i \in 1..stepIdx}
        /\ (WorkerDone /\ TaskExists) =>
              /\ tasks[WorkerTask].Status = TaskStatusFailed
              /\ stepIdx = 1 =>
                    /\ statusTrace = <<TaskStatusPending, TaskStatusRunning, TaskStatusFailed>>
                    /\ tasks[WorkerTask].Result.len = 0

C3_Witness ==
    /\ WorkerDone /\ TaskExists /\ CriticalStepFailed /\ stepIdx = 1
    /\ tasks[WorkerTask].Status = TaskStatusFailed

\* C4: a worker that ended without a critical step failure and without a
\* panic has started every step of its flow and made the AppData call of
\* every item that has AppData and the compose call of every item, whatever
\* failed on the way, and its task is completed.
C4_NonCriticalFailureContinues ==
    (WorkerDone /\ ~CriticalStepFailed /\ ~Faulted) =>
        /\ started = {Steps(wflow, wopts)[i].name : i \in 1..Len(Steps(wflow, wopts))}
        /\ \A i \in 1..Len(appStatuses) :
              /\ appStatuses[i].HasAppData => <<"data", appStatuses[i].AppName>> \in attempted
              /\ <<"compose", appStatuses[i].AppName>> \in attempted
        /\ TaskExists => tasks[WorkerTask].Status = TaskStatusCompleted

C4_Witness ==
    /\ WorkerDone /\ TaskExists /\ ~Faulted
    /\ tasks[WorkerTask].Status = TaskStatusCompleted
    /\ Len(appStatuses) = 2
    /\ appStatuses[1].ComposeStatus = AppStatusFailed
    /\ <<"compose", appStatuses[2].AppName>> \in attempted

\* C5: a worker in which a panic was raised ends with the task failed and an
\* error log that carries the panic value, and the panic does not leave the
\* worker's goroutine.
C5_PanicBecomesFailed ==
    /\ ~crashed
    /\ (WorkerDone /\ Faulted /\ TaskExists) =>
          /\ tasks[WorkerTask].Status = TaskStatusFailed
          /\ \E v \in PanicValues :
                \E i \in 1..Len(GetLogs(logs, WorkerTask)) :
                   GetLogs(logs, WorkerTask)[i] = LogEntry(LogLevelError, <<"panic", v>>)

C5_Witness ==
    /\ WorkerDone /\ TaskExists /\ recovered \in PanicValues
    /\ tasks[WorkerTask].Status = TaskStatusFailed

(***************************************************************************)
(* Properties of the item statuses and of the summary in a task's result.  *)
(***************************************************************************)
\* the derivation rule of an item's overall status
DerivedOverallStatus(app) ==
    IF ~app.HasAppData THEN app.ComposeStatus
    ELSE IF app.AppDataStatus = AppStatusSuccess /\ app.ComposeStatus = AppStatusSuccess
         THEN AppStatusSuccess
         ELSE AppStatusFailed

\* the counts of a list of items: its length, the number of items whose
\* overall status is success, and the number of the others (the program
\* counts an item that is not success, pending included, as failed)
SummaryOf(apps) ==
    LET succ == {i \in 1..Len(apps) : apps[i].OverallStatus = AppStatusSuccess}
    IN [TotalApps |-> Len(apps),
        SuccessApps |-> Cardinality(succ),
        FailedApps |-> Cardinality((1..Len(apps)) \ succ)]

HasAppsResult == TaskExists /\ tasks[WorkerTask].Result.kind = "apps"

C7_PersistedOverallStatusDerived ==
    [][(TaskExists /\ TaskExists'
        /\ tasks'[WorkerTask].Result # tasks[WorkerTask].Result
        /\ tasks'[WorkerTask].Result.kind = "apps")
        => \A i \in 1..tasks'[WorkerTask].Result.len :
              appStatuses'[i].OverallStatus = DerivedOverallStatus(appStatuses'[i])]_vars

\* C8: calculateOverallStatus returns the compose status of an item without
\* AppData; for an item with AppData it returns success exactly when both
\* sub-statuses are success and failed in every other case.
C8_OverallStatusTable ==
    calcOut # None =>
        /\ ~calcApp.HasAppData => calcOut = calcApp.ComposeStatus
        /\ calcApp.HasAppData =>
              /\ calcOut = AppStatusSuccess <=>
                    (calcApp.AppDataStatus = AppStatusSuccess
                     /\ calcApp.ComposeStatus = AppStatusSuccess)
              /\ calcOut # AppStatusSuccess => calcOut = AppStatusFailed

C8_Witness ==
    /\ calcOut = AppStatusFailed
    /\ calcApp.HasAppData
    /\ calcApp.AppDataStatus = AppStatusFailed
    /\ calcApp.ComposeStatus = AppStatusSuccess

\* C9: in every state the summary in a task's result is the summary counted
\* from the item list a reader finds in the same result.
C9_SummaryMatchesItems ==
    HasAppsResult => tasks[WorkerTask].Result.summary = SummaryOf(ResultApps(WorkerTask))

(***************************************************************************)
(* Properties of the hub.                                                  *)
(***************************************************************************)
Registered(m, c) == \E t \in DOMAIN m.Clients : c \in m.Clients[t]

\* what a broadcast leaves alone: the clients that are not registered for
\* the task and the client sets of the other tasks
BroadcastFrame(taskID) ==
    /\ \A c \in ClientIds \ ClientsOf(manager, taskID) : manager'.chan[c] = manager.chan[c]
    /\ \A t \in TaskIds \ {taskID} : ClientsOf(manager', t) = ClientsOf(manager, t)
    /\ ClientsOf(manager, taskID) = {} => manager' = manager

\* C10 as stated: a broadcast for a task appends the message to the Send
\* channel of every client registered for the task and changes no other
\* client; without a registered client it changes nothing.
C10_DeliveredToEveryObserver ==
    [][\A t \in TaskIds : \A msg \in Msgs :
          Broadcast(t, msg) =>
             /\ \A c \in ClientsOf(manager, t) :
                   manager'.chan[c].Send = Append(manager.chan[c].Send, msg)
             /\ BroadcastFrame(t)]_vars

\* C10 amended: a broadcast for a task appends the message to the Send
\* channel of every client registered for the task whose channel has room;
\* a registered client whose channel is full gets nothing: its channel is
\* closed and it is removed from the task's clients.  No other client and no
\* other task's client set changes; without a registered client nothing
\* changes.
C10_DeliveredToObserversWithRoom ==
    [][\A t \in TaskIds : \A msg \in Msgs :
          Broadcast(t, msg) =>
             LET cs == ClientsOf(manager, t)
                 full == {c \in cs : Len(manager.chan[c].Send) = SendBufferSize}
             IN /\ \A c \in cs \ full :
                      /\ manager'.chan[c].Send = Append(manager.chan[c].Send, msg)
                      /\ c \in ClientsOf(manager', t)
                /\ \A c \in full :
                      /\ manager'.chan[c].Send = manager.chan[c].Send
                      /\ manager'.chan[c].closes = manager.chan[c].closes + 1
                      /\ c \notin ClientsOf(manager', t)
                /\ BroadcastFrame(t)]_vars

\* one client of a task was dropped by a broadcast that found its channel
\* full, while the other client of the task has a message in its channel
C10_Witness ==
    \E c1, c2 \in ClientIds :
        /\ manager.chan[c1].TaskID = "t1" /\ ~Registered(manager, c1)
        /\ manager.chan[c1].readPump = "running"
        /\ manager.chan[c1].closes = 1
        /\ Len(manager.chan[c1].Send) = SendBufferSize
        /\ manager.chan[c2].TaskID = "t1" /\ Registered(manager, c2)
        /\ manager.chan[c2].Send = <<"m1">>

\* the events a client has got so far: those written to its connection
\* followed by those waiting in its Send channel
EventsOf(c) == delivered[c] \o manager.chan[c].Send

\* C11: the events a client gets from the producer of its task come in the
\* order of the producer's SendMessage calls: events may be missing, but a
\* later event is never in front of an earlier one.
C11_EventsInPublishOrder ==
    \A c \in ClientIds :
        \A i, j \in 1..Len(EventsOf(c)) : i < j => EventsOf(c)[i] < EventsOf(c)[j]

\* a client that missed event 1 has written event 2 and holds event 3
C11_Witness ==
    \E c \in ClientIds :
        /\ delivered[c] = <<2>>
        /\ manager.chan[c].Send = <<3>>

\* C12: a broadcast that finds the Send channel of a client full closes that
\* channel once and removes the client from the task's clients, leaving the
\* channel's contents alone; the task's clients that have room get the
\* message and stay registered, so later broadcasts reach them too; no
\* fault is raised, and in every state a broadcast for any task can be
\* taken by the Run loop, whatever the state of the Send channels.
C12_SaturatedClientDropped ==
    /\ [][\A t \in TaskIds : \A msg \in Msgs :
            LET cs == ClientsOf(manager, t)
                full == {c \in cs : Len(manager.chan[c].Send) = SendBufferSize}
            IN (Broadcast(t, msg) /\ full # {}) =>
                  /\ \A c \in full :
                        /\ manager'.chan[c].closes = manager.chan[c].closes + 1
                        /\ manager'.chan[c].closes = 1
                        /\ manager'.chan[c].Send = manager.chan[c].Send
                        /\ ~Registered(manager', c)
                  /\ \A c \in cs \ full :
                        /\ manager'.chan[c].Send = Append(manager.chan[c].Send, msg)
                        /\ c \in ClientsOf(manager', t)
                  /\ ClientsOf(manager', t) = cs \ full
                  /\ (cs = full) <=> (t \notin DOMAIN manager'.Clients)
                  /\ ~manager'.fault]_vars
    /\ [](\A t \in TaskIds : \A msg \in Msgs : ENABLED Broadcast(t, msg))

\* client c1 was dropped with a full channel and client c2 of the same task
\* got the message of a later broadcast
C12_Witness ==
    \E c1, c2 \in ClientIds :
        /\ manager.chan[c1].TaskID = "t2" /\ ~Registered(manager, c1)
        /\ manager.chan[c1].readPump = "running"
        /\ manager.chan[c1].closes = 1
        /\ manager.chan[c1].Send = <<"m1", "m1">>
        /\ manager.chan[c2].TaskID = "t2" /\ Registered(manager, c2)
        /\ manager.chan[c2].Send = <<"m1", "m2">>

\* C13: handing a client to the Unregister case of the Run loop a second
\* time, or after a broadcast has dropped the client, changes nothing in the
\* manager: no client set changes, no channel is closed again and no fault
\* is raised.  readPump, the caller, does so for a dropped client.
C13_UnregisterIdempotent ==
    /\ ~manager.fault
    /\ \A c \in ClientIds :
          manager.chan[c].TaskID # None =>
             LET once == RunUnregister(manager, c)
             IN /\ RunUnregister(once, c) = once
                /\ ~Registered(manager, c) => once = manager
                /\ ~once.fault
                /\ once.chan[c].closes = 1

\* the Unregister case has run, readPump having ended, on a client whose
\* channel is full and closed, while another client of the task stays
\* registered
C13_Witness ==
    \E c, d \in ClientIds :
        /\ c # d
        /\ manager.chan[c].TaskID = manager.chan[d].TaskID
        /\ Registered(manager, d)
        /\ ~Registered(manager, c)
        /\ manager.chan[c].readPump = "done"
        /\ Len(manager.chan[c].Send) = SendBufferSize
        /\ manager.chan[c].closes = 1
        /\ ~manager.fault

(***************************************************************************)
(* Properties of the handlers and of the store.                            *)
(***************************************************************************)
\* the id was given to a task and the task is no longer in the store
AlreadyDeleted(id) == wk[id] # "none" /\ id \notin DOMAIN tasks

ErrorCode(code) == code >= 400

\* C14: a delete request for a task id that has already been deleted
\* is answered without an error and leaves the tasks and the logs of the
\* store unchanged.
C14_SecondDeleteNoError ==
    [][\A r \in Reqs : \A id \in TaskIds :
          (AlreadyDeleted(id) /\ DeleteTaskGet(r, id)) =>
             /\ ~ErrorCode(req'[r].code)
             /\ tasks' = tasks
             /\ logs' = logs]_vars

\* C15: no step removes from the store a task whose status is running.
C15_RunningTaskNeverRemoved ==
    [][(TaskExists /\ tasks[WorkerTask].Status = TaskStatusRunning) => TaskExists']_vars

\* C16: a status query that reads the status running never consults the
\* cache and never answers with a cached view: its answer is the view it
\* computed from the task.
C16_RunningNeverCached ==
    \A r \in Reqs :
        (req[r].op = "status" /\ req[r].status = TaskStatusRunning) =>
            /\ ~req[r].cached
            /\ req[r].pc \in {"compute", "check", "lock", "store", "done"}
            /\ (req[r].pc = "done" /\ req[r].code = 200) => req[r].view.Status # None

\* a query answered with a computed view for a task it read as running,
\* while the cache holds an entry of the task that has not expired
C16_Witness ==
    \E r \in Reqs :
        /\ req[r].op = "status"
        /\ req[r].status = TaskStatusRunning
        /\ req[r].pc = "done"
        /\ req[r].code = 200
        /\ ~req[r].cached
        /\ req[r].id \in DOMAIN importStatusCache
        /\ now < cacheExpiry[req[r].id]
        /\ req[r].view # importStatusCache[req[r].id]

\* C17: no entry of the cache holds a view whose status is running.
C17_NoRunningViewCached ==
    \A id \in DOMAIN importStatusCache :
        importStatusCache[id].Status # TaskStatusRunning

\* C18: the cache maps change only in steps taken while the exclusive lock
\* is held.
C18_MutationsUnderWriteLock ==
    [][(importStatusCache' # importStatusCache \/ cacheExpiry' # cacheExpiry)
          => cacheMutex.writer # None]_vars

\* C19: each call of a setter by the worker of an existing task (status,
\* progress, log, result) leaves the task's UpdatedAt equal to the time of
\* the call.
C19_SettersRefreshUpdatedAt ==
    [][\A id \in TaskIds :
          (/\ id \in DOMAIN tasks
           /\ \/ ApiWorkerStart(id)
              \/ \E progress \in ProgressValues : ApiWorkerProgress(id, progress)
              \/ ApiWorkerLog(id)
              \/ ApiWorkerResult(id)
              \/ \E status \in {TaskStatusCompleted, TaskStatusFailed} :
                    ApiWorkerFinish(id, status))
          => (id \in DOMAIN tasks' /\ tasks'[id].UpdatedAt = now)]_vars

\* C20: while the task is running, no step stores a progress lower than
\* the progress the task had before the step.
C20_ProgressNeverRegresses ==
    [][(/\ TaskExists
        /\ TaskExists'
        /\ tasks[WorkerTask].Status = TaskStatusRunning
        /\ tasks'[WorkerTask].Status = TaskStatusRunning)
          => tasks'[WorkerTask].Progress >= tasks[WorkerTask].Progress]_vars

IsPrefix(a, b) == Len(a) <= Len(b) /\ SubSeq(b, 1, Len(a)) = a

\* C21: what GetLogs returns for a task only ever grows at its end: every
\* step leaves the entries returned before in place and in order, whatever
\* their number, unless the step deletes the task with its logs.
C21_LogsAppendOnly ==
    [][\A id \in TaskIds :
          \/ IsPrefix(GetLogs(logs, id), GetLogs(logs', id))
          \/ id \in DOMAIN tasks /\ id \notin DOMAIN tasks']_vars

\* the log of the worker's task holds the start of its first step, then
\* further entries, and the error entry of the deferred function at its end
C21_Witness ==
    LET l == GetLogs(logs, WorkerTask)
    IN /\ Len(l) >= 4
       /\ l[1].Level = LogLevelInfo
       /\ l[1].Message[1] = "Step started"
       /\ l[Len(l)].Level = LogLevelError
       /\ l[Len(l)] # l[Len(l) - 1]

\* C22: a worker that has ended and has left a temporary artifact on disk
\* has run its cleanup step (cleanup removes only what it can; a worker that
\* did not run it has removed nothing).
C22_CleanupRunsWhenArtifacts ==
    (WorkerDone /\ artifacts # {}) => StepCleanup.name \in started

\* C23: a step of a request goroutine (a status query) leaves every task
\* record and every item record of a result as it was.
C23_QueriesReadOnly ==
    [][(req' # req) => (tasks' = tasks /\ appStatuses' = appStatuses)]_vars

(***************************************************************************)
(* Properties of the step executor's events.                               *)
(***************************************************************************)
\* the events the observer got that carry the name of a step
StepEvents(name) == SelectSeq(EventsOf(Observer), LAMBDA m : m.Step = name)

IsTerminalEvent(m) == m.Type = "step" /\ m.Status \in {"complete", "error"}

\* ExecuteStep... has returned for the step at index idx of the worker's list
StepReturned(idx) ==
    \/ idx < stepIdx
    \/ idx = stepIdx /\ wpc \notin {"none", "start", "stepBegin", "body", "stepEnd"} /\ ~Faulted

CallbackCount(idx) ==
    Cardinality({i \in 1..Len(Steps(wflow, wopts)[idx].body) :
                    Steps(wflow, wopts)[idx].body[i].op = "progress"})

WorkerRun ==
    \/ WorkerStart
    \/ WorkerStepBegin
    \/ WorkerProgress
    \/ WorkerCallOk
    \/ WorkerCallErr
    \/ \E v \in PanicValues : WorkerPanic(v)
    \/ WorkerStepEnd
    \/ WorkerFinalResult
    \/ WorkerFinalProgress
    \/ WorkerDeferStatus
    \/ WorkerDeferLog

NextLive ==
    \/ StartMigration(TaskTypeExport, {})
    \/ WorkerRun
    \/ \E c \in ClientIds : HandleWebSocket(c, WorkerTask)
    \/ \E c \in ClientIds : readPump(c)
    \/ DeleteTaskCheck
    \/ DeleteTaskStore

SpecLive == Init /\ [][NextLive]_vars /\ WF_vars(WorkerRun)

(***************************************************************************)
(* The store under concurrent calls: the lock instructions of each         *)
(* operation, in the order the code executes them (deferred unlocks run    *)
(* last, in reverse order of their defer statements).                      *)
(***************************************************************************)
Ins(k, m) == [k |-> k, m |-> m]

\* SaveTask, UpdateTaskStatus, UpdateTaskProgress, SetTaskResult
SetterLocks == <<Ins("Lock", "tasksMutex"), Ins("Unlock", "tasksMutex")>>

GetTaskLocks == <<Ins("RLock", "tasksMutex"), Ins("RUnlock", "tasksMutex")>>

\* MemoryStore.DeleteTask: the log lock is taken inside the task lock; a
\* task that does not exist is an early return
DeleteTaskLocks(exists) ==
    IF exists
    THEN <<Ins("Lock", "tasksMutex"), Ins("Lock", "logsMutex"), Ins("Unlock", "logsMutex"),
           Ins("Unlock", "tasksMutex")>>
    ELSE <<Ins("Lock", "tasksMutex"), Ins("Unlock", "tasksMutex")>>

\* MemoryStore.CleanupExpiredTasks with n expired tasks
RECURSIVE ExpiredLocks(_)
ExpiredLocks(n) ==
    IF n = 0 THEN <<>>
    ELSE <<Ins("Lock", "logsMutex"), Ins("Unlock", "logsMutex"),
           Ins("Lock", "downloadMutex"), Ins("Unlock", "downloadMutex")>> \o ExpiredLocks(n - 1)

CleanupExpiredTasksLocks(n) ==
    <<Ins("Lock", "tasksMutex")>> \o ExpiredLocks(n) \o <<Ins("Unlock", "tasksMutex")>>

\* a GetStats that reads the logs before it takes the task lock
GetStatsLocks_logsFirst ==
    <<Ins("RLock", "logsMutex"), Ins("RLock", "tasksMutex"),
      Ins("RUnlock", "tasksMutex"), Ins("RUnlock", "logsMutex")>>

\* MemoryStore.GetStats
GetStatsLocks ==
    <<Ins("RLock", "tasksMutex"), Ins("RLock", "connectionsMutex"),
      Ins("RLock", "logsMutex"), Ins("RLock", "downloadMutex"),
      Ins("RUnlock", "downloadMutex"), Ins("RUnlock", "logsMutex"),
      Ins("RUnlock", "connectionsMutex"), Ins("RUnlock", "tasksMutex")>>

\* AddLog, ClearLogs
AddLogLocks == <<Ins("Lock", "logsMutex"), Ins("Unlock", "logsMutex")>>

GetLogsLocks == <<Ins("RLock", "logsMutex"), Ins("RUnlock", "logsMutex")>>

\* SaveConnection, DeleteConnection
SaveConnectionLocks ==
    <<Ins("Lock", "connectionsMutex"), Ins("Unlock", "connectionsMutex")>>

\* SaveDownloadInstructions, DeleteDownloadInstructions
SaveDownloadInstructionsLocks ==
    <<Ins("Lock", "downloadMutex"), Ins("Unlock", "downloadMutex")>>

StoreCalls ==
    {[op |-> "SetTaskResult", ins |-> SetterLocks],
     [op |-> "GetTask", ins |-> GetTaskLocks],
     [op |-> "GetStats", ins |-> GetStatsLocks],
     [op |-> "AddLog", ins |-> AddLogLocks],
     [op |-> "GetLogs", ins |-> GetLogsLocks],
     [op |-> "SaveConnection", ins |-> SaveConnectionLocks],
     [op |-> "SaveDownloadInstructions", ins |-> SaveDownloadInstructionsLocks]}
    \cup {[op |-> "DeleteTask", ins |-> DeleteTaskLocks(exists)] : exists \in BOOLEAN}
    \cup {[op |-> "CleanupExpiredTasks", ins |-> CleanupExpiredTasksLocks(n)] :
             n \in 0..MaxExpired}

lockFrame == <<tasks, logs, manager, workerVars, dpc, statusTrace, calcVars,
               pubCount, delivered, apiVars>>

\* the instruction a goroutine is at
CurIns(g) == storeCall[g].ins[storeCall[g].pc]

At(g, k) == storeCall[g].op # None /\ CurIns(g).k = k

\* the mutexes a goroutine holds
Held(g) ==
    {m \in Mutexes :
        \/ g \in storeMutex[m].readers
        \/ /\ storeMutex[m].writer = g
           /\ ~(storeCall[g].waiting /\ CurIns(g).m = m)}

\* sync.RWMutex: Lock waits for the writer and then for the readers; RLock
\* waits while a writer holds the lock or waits for it
Blocked(g) ==
    /\ storeCall[g].op # None
    /\ LET mu == storeMutex[CurIns(g).m]
       IN \/ CurIns(g).k = "Lock" /\ ~storeCall[g].waiting /\ mu.writer # NoGoroutine
          \/ CurIns(g).k = "Lock" /\ storeCall[g].waiting /\ mu.readers # {}
          \/ CurIns(g).k = "RLock" /\ mu.writer # NoGoroutine

\* the goroutine after its instruction: the last one returns
Returned(g) ==
    IF storeCall[g].pc = Len(storeCall[g].ins) THEN IdleCall
    ELSE [storeCall[g] EXCEPT !.pc = @ + 1, !.waiting = FALSE]

\* a goroutine calls a store operation
StoreCall(g, c) ==
    /\ storeCall[g].op = None
    /\ storeCall' = [storeCall EXCEPT ![g] = [op |-> c.op, ins |-> c.ins, pc |-> 1,
                                              waiting |-> FALSE]]
    /\ UNCHANGED <<storeMutex, lockFrame>>

\* mutex.Lock(): the writer announces itself, and has the lock once no
\* reader is left
MutexLock(g) ==
    /\ At(g, "Lock")
    /\ ~Blocked(g)
    /\ storeMutex' = [storeMutex EXCEPT ![CurIns(g).m].writer = g]
    /\ storeCall' = [storeCall EXCEPT ![g] =
                        IF storeMutex[CurIns(g).m].readers = {} THEN Returned(g)
                        ELSE [@ EXCEPT !.waiting = TRUE]]
    /\ UNCHANGED lockFrame

MutexUnlock(g) ==
    /\ At(g, "Unlock")
    /\ storeMutex' = [storeMutex EXCEPT ![CurIns(g).m].writer = NoGoroutine]
    /\ storeCall' = [storeCall EXCEPT ![g] = Returned(g)]
    /\ UNCHANGED lockFrame

MutexRLock(g) ==
    /\ At(g, "RLock")
    /\ ~Blocked(g)
    /\ storeMutex' = [storeMutex EXCEPT ![CurIns(g).m].readers = @ \cup {g}]
    /\ storeCall' = [storeCall EXCEPT ![g] = Returned(g)]
    /\ UNCHANGED lockFrame

MutexRUnlock(g) ==
    /\ At(g, "RUnlock")
    /\ storeMutex' = [storeMutex EXCEPT ![CurIns(g).m].readers = @ \ {g}]
    /\ storeCall' = [storeCall EXCEPT ![g] = Returned(g)]
    /\ UNCHANGED lockFrame

NextLocks ==
    \/ \E g \in Goroutines : \E c \in StoreCalls : StoreCall(g, c)
    \/ \E g \in Goroutines : MutexLock(g)
    \/ \E g \in Goroutines : MutexUnlock(g)
    \/ \E g \in Goroutines : MutexRLock(g)
    \/ \E g \in Goroutines : MutexRUnlock(g)

SpecLocks == Init /\ [][NextLocks]_vars

------------------------------------------------------------------------
\* Properties of the cached status view, of the result and of the logs

TerminalStatuses == {TaskStatusCompleted, TaskStatusFailed}

\* C25: whenever the status query of a task whose status is completed or
\* failed is answered from the cache, the status and the progress of the
\* returned view are the task's current ones; in particular a view that
\* was cached while the task was pending is not returned then.
C25_CachedViewIsCurrent ==
    [][\A r \in Reqs :
         (/\ req[r].pc = "lookup"
          /\ req'[r].pc = "hit"
          /\ req[r].id \in DOMAIN tasks
          /\ tasks[req[r].id].Status \in TerminalStatuses)
         => /\ req'[r].view.Status = tasks[req[r].id].Status
            /\ req'[r].view.Progress = tasks[req[r].id].Progress]_vars

\* C26: once the task's status is completed or failed, no step changes the
\* task's result any more.
C26_ResultFrozenAfterTerminal ==
    [][(/\ WorkerTask \in DOMAIN tasks
        /\ WorkerTask \in DOMAIN tasks'
        /\ tasks[WorkerTask].Status \in TerminalStatuses)
       => tasks'[WorkerTask].Result = tasks[WorkerTask].Result]_vars

\* C27: every task id that has log entries has a task record: after the
\* task was deleted no log entries of its id remain and none appear later.
C27_LogsOnlyForStoredTasks ==
    \A id \in DOMAIN logs : logs[id] # <<>> => id \in DOMAIN tasks

------------------------------------------------------------------------
\* Properties of the hub's channels, of the worker's end and of the locks

\* C28: the Run loop closes the Send channel of a client at most once and
\* never sends on a closed one: no step raises the fault, a closed channel
\* belongs to no task's clients, and the events of a client whose channel
\* is closed stay what they were, whatever clients register for its task
\* afterwards.
C28_ClosedOnceNeverSentOn ==
    [][/\ ~manager'.fault
       /\ \A c \in ClientIds :
            /\ manager'.chan[c].closes <= 1
            /\ manager'.chan[c].closes >= 1 => ~Registered(manager', c)
            /\ manager.chan[c].closes >= 1 =>
                  delivered'[c] \o manager'.chan[c].Send = EventsOf(c)]_vars

\* the task's first client got event 1 and its channel was closed when its
\* readPump ended; nobody was registered for event 2, the task's entry having
\* been deleted; a second client of the task registered and holds event 3
C28_Witness ==
    \E c, d \in ClientIds :
        /\ c # d
        /\ manager.chan[c].TaskID # None
        /\ manager.chan[c].TaskID = manager.chan[d].TaskID
        /\ pubCount[manager.chan[c].TaskID] = 3
        /\ EventsOf(c) = <<1>>
        /\ manager.chan[c].closes = 1
        /\ manager.chan[c].readPump = "done"
        /\ Registered(manager, d)
        /\ manager.Clients[manager.chan[d].TaskID] = {d}
        /\ EventsOf(d) = <<3>>
        /\ ~manager.fault

\* the order in which the store's operations take the mutexes
LockRank ==
    [m \in Mutexes |-> CASE m = "tasksMutex" -> 1
                         [] m = "connectionsMutex" -> 2
                         [] m = "logsMutex" -> 3
                         [] m = "downloadMutex" -> 4]

\* C30: concurrent store operations never deadlock: a goroutine that asks
\* for a mutex holds only mutexes that come before it in the one order
\* tasks, connections, logs, downloads, and whenever goroutines are inside
\* store operations one of them can take its next step.
C30_NoStoreDeadlock ==
    /\ \A g \in Goroutines :
          (At(g, "Lock") \/ At(g, "RLock")) =>
             \A m \in Held(g) : LockRank[m] < LockRank[CurIns(g).m]
    /\ (\E g \in Goroutines : storeCall[g].op # None) =>
          \E g \in Goroutines : storeCall[g].op # None /\ ~Blocked(g)

\* DeleteTask holds the task lock and waits for the log lock, which
\* GetLogs, itself waiting for no lock, holds for reading
C30_Witness ==
    \E g, h \in Goroutines :
        /\ storeCall[g].op = "DeleteTask"
        /\ Held(g) = {"tasksMutex"}
        /\ storeCall[g].waiting
        /\ Blocked(g)
        /\ storeCall[h].op = "GetLogs"
        /\ "logsMutex" \in Held(h)
        /\ ~Blocked(h)

\* the worker has written a terminal status: the status of its task has
\* held the value completed or failed
TerminalWritten ==
    \E i \in 1..Len(statusTrace) : statusTrace[i] \in TerminalStatuses

====
